---- MODULE Spec2Model ----
(***************************************************************************)
(* The virtualized grid engine of the Excel/VBA assistant front end:       *)
(* the ExcelGrid component of src/frontend/src/App.tsx (lines 828-1166)    *)
(* and the App component (lines 349-796) that feeds it its data and       *)
(* receives its cell-mutation callback: the session and its timeout timer, *)
(* the debounced update-cell requests and the chat requests.               *)
(*                                                                         *)
(* Every action is one event handler run to completion, followed by the    *)
(* re-render React performs for the state it set: the re-render is where   *)
(* the memoized values (visibleRange, handleMouseDown's closure) are       *)
(* refreshed or kept, according to their dependency lists.                 *)
(***************************************************************************)
EXTENDS Integers, Sequences, FiniteSets, TLC

\* ------------------------------------------------------------------------
\* Configuration (App.tsx 830-834) and the fallback range (App.tsx 869)
CELL_HEIGHT == 25
DEFAULT_CELL_WIDTH == 100
MIN_CELL_WIDTH == 50
ROW_HEADER_WIDTH == 60
VISIBLE_BUFFER == 5
FALLBACK_END_ROW == 50
FALLBACK_END_COL == 20

\* Session timing in seconds (App.tsx 41-42) and the delay of the
\* update-cell timer in milliseconds (App.tsx 502)
SESSION_TIMEOUT == 36000
WARNING_TIME == 300
DEBOUNCE_MS == 500

\* ------------------------------------------------------------------------
\* Bounds of the model
\* Number of cell-mutation callbacks followed in one behaviour
MaxCommits == 1
\* Rows and columns of the large sheet of the viewport specification
BigRows == 16
BigCols == 16
\* Widest column a resize is followed to
MaxColWidth == 150
\* Largest column index a label is computed for
MaxIndex == 730
\* Largest row, and largest column, of the cell references compared
MaxRefRow == 11
MaxRefCol == 30
\* handleCellChange calls, sessions opened and chat messages sent in the
\* specifications of the App component
MaxCellChanges == 3
MaxSessions == 2
MaxSends == 2

\* null, for selection, editingCell and resizingColumn
NULL == [null |-> TRUE]

Max(a, b) == IF a >= b THEN a ELSE b
Min(a, b) == IF a <= b THEN a ELSE b
\* Math.floor(a / b) and Math.ceil(a / b) for b > 0 and any integer a
Floor(a, b) == a \div b
Ceil(a, b) == -((-a) \div b)

CellAt(r, c) == [row |-> r, col |-> c]

\* ------------------------------------------------------------------------
\* The grids supplied by the caller (App.tsx 659-660, 770)
GridExample == << <<"a", "b">>, <<"c", "10">> >>
GridJagged == << <<"a", "b">>, <<"c">> >>
GridTiny == << <<"z">> >>
GridEmpty == << >>
GridBig == [r \in 1..BigRows |-> [c \in 1..BigCols |-> ""]]

\* The draft strings typed into the editor
Drafts == {"", "20"}

VARIABLES
  data,             \* the data prop: rows of strings
  columnWidths,     \* state: column index -> width override
  selection,        \* state: NULL or [start, end]
  isSelecting,      \* state
  editingCell,      \* state: NULL or [row, col]
  editValue,        \* state
  scrollPosition,   \* state: [x, y]
  resizingColumn,   \* state: NULL or [col], the column being resized
  resizeStartX,     \* state
  resizeStartWidth, \* state
  clientWidth,      \* scrollContainerRef.current.clientWidth
  clientHeight,     \* scrollContainerRef.current.clientHeight
  visibleRange,     \* the value held by useMemo (App.tsx 867-906)
  mdSaveEdit,       \* the saveEdit closure held by the memoized handleMouseDown
  crashed,          \* an exception escaped a state updater: the tree is unmounted
  nCommits,         \* number of cell-mutation callbacks so far (bounded)
  lastOp,           \* the handler that ran last
  cellCalls,        \* onCellChange invocations of the last handler, in order
  selCalls,         \* onSelectionChange invocations of the last handler, in order
  refRow,           \* getCellRef: its row argument
  refCol,           \* getCellRef: its col argument, the index of getColumnName
  num,              \* getColumnName: the local num
  name,             \* getColumnName: the local name, a sequence of characters
  cellRef,          \* getCellRef: the string returned, a sequence of characters
  labelPc,          \* "idle", "loop" (in the while of getColumnName) or "done"
  buttonDown,       \* the primary pointer button is held down
  session,          \* App state: NULL or [session_id] of the open session
  nSessions,        \* number of sessions the backend has created (bounded)
  isUploading,      \* App state
  messages,         \* App state: the types of the chat messages, in order
  error,            \* App state: NULL or [message]
  elapsed,          \* NULL while sessionStartTime is null, else [seconds]:
                    \* the whole seconds from sessionStartTime to now
  showTimeoutWarning, \* App state
  timeLeft,         \* App state
  dismissed,        \* history: the warning was closed with Ignorer and the
                    \* session has not been extended, closed or expired since
  pendingUpdates,   \* App state: a set of cell keys
  updateTimeouts,   \* updateTimeouts.current: cell key -> timer id
  timers,           \* the armed timers of setTimeout (App.tsx 473-502)
  nTimers,          \* number of timers created so far: the last timer id
  requests,         \* update-cell requests sent and not yet answered
  sent,             \* the bodies of the update-cell requests sent, in order
  sinceCommit,      \* history: cell key -> ms since handleCellChange last ran for it
  sendsSince,       \* history: cell key -> requests sent for it since then
  isLoading,        \* App state
  chats,            \* the handleSendMessage calls awaiting a response
  nSends            \* number of handleSendMessage calls so far (bounded)

\* The variables of a getCellRef call
labelVars == <<refRow, refCol, num, name, cellRef, labelPc>>

\* The state of App: session and its timer, cell persistence, chat
sessionVars == <<session, nSessions, isUploading, messages, error, elapsed,
                 showTimeoutWarning, timeLeft, dismissed>>
persistVars == <<pendingUpdates, updateTimeouts, timers, nTimers, requests, sent,
                 sinceCommit, sendsSince>>
chatVars == <<isLoading, chats, nSends>>
appVars == <<buttonDown, sessionVars, persistVars, chatVars>>

vars == <<data, columnWidths, selection, isSelecting, editingCell, editValue,
          scrollPosition, resizingColumn, resizeStartX, resizeStartWidth,
          clientWidth, clientHeight, visibleRange, mdSaveEdit, crashed,
          nCommits, lastOp, cellCalls, selCalls, labelVars,
          buttonDown, sessionVars, persistVars, chatVars>>

\* ------------------------------------------------------------------------
\* Dimensions (App.tsx 853-864)
TotalRows(d) == Len(d)

RowLengths(d) == {Len(d[i]) : i \in 1..Len(d)}

TotalCols(d) == CHOOSE m \in RowLengths(d) \cup {0} :
                  \A n \in RowLengths(d) \cup {0} : n <= m

\* columnWidths[col] || DEFAULT_CELL_WIDTH
ColWidth(cw, col) ==
  IF col \in DOMAIN cw /\ cw[col] # 0 THEN cw[col] ELSE DEFAULT_CELL_WIDTH

RECURSIVE GetColumnLeftFrom(_, _, _)
GetColumnLeftFrom(cw, i, col) ==
  IF i >= col THEN 0 ELSE ColWidth(cw, i) + GetColumnLeftFrom(cw, i + 1, col)

\* A left offset that takes every column for DEFAULT_CELL_WIDTH wide
GetColumnLeft_Uniform(cw, col) == col * DEFAULT_CELL_WIDTH

\* getColumnLeft (App.tsx 923-929)
GetColumnLeft(cw, col) == GetColumnLeftFrom(cw, 0, col)

TotalHeight(d) == TotalRows(d) * CELL_HEIGHT

\* The loop of totalWidth (App.tsx 860-862) from column col on, width being
\* the sum so far
RECURSIVE TotalWidthFrom(_, _, _, _)
TotalWidthFrom(cw, col, totalCols, width) ==
  IF col < totalCols
  THEN TotalWidthFrom(cw, col + 1, totalCols, width + ColWidth(cw, col))
  ELSE width

\* totalWidth (App.tsx 858-864); its dependencies [columnWidths, totalCols]
\* are all it reads
TotalWidth(d, cw) == TotalWidthFrom(cw, 0, TotalCols(d), 0)

\* data[row]?.[col] || ''  (App.tsx 978, 1061)
CellValue(d, row, col) ==
  IF row >= 0 /\ row < Len(d) /\ col >= 0 /\ col < Len(d[row + 1])
  THEN d[row + 1][col + 1] ELSE ""

\* ------------------------------------------------------------------------
\* visibleRange (App.tsx 867-906)

\* The range of the first render, when scrollContainerRef.current is still
\* null (App.tsx 868-870)
FallbackRange ==
  [startRow |-> 0, endRow |-> FALLBACK_END_ROW,
   startCol |-> 0, endCol |-> FALLBACK_END_COL]

\* A start row clamped before the buffer is subtracted
StartRowOf_ClampFirst(y) == Max(0, Floor(y, CELL_HEIGHT)) - VISIBLE_BUFFER

\* App.tsx 875
StartRowOf(y) == Max(0, Floor(y, CELL_HEIGHT) - VISIBLE_BUFFER)

\* App.tsx 876-879
EndRowOf(y, containerHeight, totalRows) ==
  Min(totalRows, Ceil(y + containerHeight, CELL_HEIGHT) + VISIBLE_BUFFER)

\* A scan that tests the end threshold after the column's width is added
RECURSIVE ColumnScan_EndAfterAdd(_, _, _, _, _, _, _, _)
ColumnScan_EndAfterAdd(cw, totalCols, x, containerWidth, col, accumulatedWidth, startCol, startFound) ==
  IF col >= totalCols
  THEN [startCol |-> startCol, endCol |-> 0]
  ELSE LET colWidth == ColWidth(cw, col)
           hit == ~startFound /\ accumulatedWidth + colWidth > x
           sc == IF hit THEN Max(0, col - VISIBLE_BUFFER) ELSE startCol
       IN IF accumulatedWidth + colWidth > x + containerWidth + VISIBLE_BUFFER * DEFAULT_CELL_WIDTH
          THEN [startCol |-> sc, endCol |-> col]
          ELSE ColumnScan_EndAfterAdd(cw, totalCols, x, containerWidth, col + 1,
                                      accumulatedWidth + colWidth, sc, startFound \/ hit)

\* The loop of App.tsx 887-901 from column col on; the result is the pair
\* (startCol, endCol) the loop leaves (endCol = 0 when it never breaks)
RECURSIVE ColumnScan(_, _, _, _, _, _, _, _)
ColumnScan(cw, totalCols, x, containerWidth, col, accumulatedWidth, startCol, startFound) ==
  IF col >= totalCols
  THEN [startCol |-> startCol, endCol |-> 0]
  ELSE LET colWidth == ColWidth(cw, col)
           hit == ~startFound /\ accumulatedWidth + colWidth > x
           sc == IF hit THEN Max(0, col - VISIBLE_BUFFER) ELSE startCol
       IN IF accumulatedWidth > x + containerWidth + VISIBLE_BUFFER * DEFAULT_CELL_WIDTH
          THEN [startCol |-> sc, endCol |-> col]
          ELSE ColumnScan(cw, totalCols, x, containerWidth, col + 1,
                          accumulatedWidth + colWidth, sc, startFound \/ hit)

\* The body of the useMemo once the container is mounted (App.tsx 872-905)
ComputeVisibleRange(sp, cWidth, cHeight, cw, d) ==
  LET containerHeight == cHeight - CELL_HEIGHT
      containerWidth == cWidth - ROW_HEADER_WIDTH
      scan == ColumnScan(cw, TotalCols(d), sp.x, containerWidth, 0, 0, 0, FALSE)
  IN [startRow |-> StartRowOf(sp.y),
      endRow |-> EndRowOf(sp.y, containerHeight, TotalRows(d)),
      startCol |-> scan.startCol,
      endCol |-> IF scan.endCol = 0 THEN TotalCols(d) ELSE scan.endCol]

\* The value useMemo yields in the render that follows a handler: recomputed
\* when one of [scrollPosition, totalRows, totalCols, columnWidths] changed
\* (App.tsx 906), kept otherwise. The container is mounted by then.
MemoVisibleRange(depsChanged, sp, cw, d) ==
  IF depsChanged \/ TotalRows(d) # TotalRows(data) \/ TotalCols(d) # TotalCols(data)
  THEN ComputeVisibleRange(sp, clientWidth, clientHeight, cw, d)
  ELSE visibleRange

\* The render loop (App.tsx 1152-1160): Array.from with a negative length
\* yields no element
IsRendered(vr, row, col) ==
  /\ vr.startRow <= row /\ row < vr.endRow
  /\ vr.startCol <= col /\ col < vr.endCol

RenderedCells(vr) ==
  {CellAt(r, c) : r \in vr.startRow..(vr.endRow - 1), c \in vr.startCol..(vr.endCol - 1)}

\* A membership test whose upper bounds are exclusive
IsCellSelected_ExclusiveEnd(sel, row, col) ==
  IF sel = NULL THEN FALSE
  ELSE LET minRow == Min(sel.start.row, sel.end.row)
           maxRow == Max(sel.start.row, sel.end.row)
           minCol == Min(sel.start.col, sel.end.col)
           maxCol == Max(sel.start.col, sel.end.col)
       IN row >= minRow /\ row < maxRow /\ col >= minCol /\ col < maxCol

\* A membership test that takes start for the top-left corner and end for
\* the bottom-right one
IsCellSelected_Unordered(sel, row, col) ==
  IF sel = NULL THEN FALSE
  ELSE /\ row >= sel.start.row /\ row <= sel.end.row
       /\ col >= sel.start.col /\ col <= sel.end.col

\* isCellSelected (App.tsx 1046-1055)
IsCellSelected(sel, row, col) ==
  IF sel = NULL THEN FALSE
  ELSE LET minRow == Min(sel.start.row, sel.end.row)
           maxRow == Max(sel.start.row, sel.end.row)
           minCol == Min(sel.start.col, sel.end.col)
           maxCol == Max(sel.start.col, sel.end.col)
       IN row >= minRow /\ row <= maxRow /\ col >= minCol /\ col <= maxCol

\* renderCell (App.tsx 1058-1098): the descriptor of one rendered cell
RenderCell(row, col) ==
  [row |-> row, col |-> col,
   left |-> GetColumnLeft(columnWidths, col), top |-> row * CELL_HEIGHT,
   width |-> ColWidth(columnWidths, col), height |-> CELL_HEIGHT,
   value |-> CellValue(data, row, col),
   isSelected |-> IsCellSelected(selection, row, col),
   isEditing |-> editingCell # NULL /\ editingCell.row = row /\ editingCell.col = col]

\* The descriptors of the current render (App.tsx 1150-1161)
Descriptors == {RenderCell(cell.row, cell.col) : cell \in RenderedCells(visibleRange)}

\* Array.from({length: n}, (_, i) => first + i): no element when n <= 0
ArrayFrom(n, first) == [i \in 1..n |-> first + i - 1]

\* The concatenation of the sequences of a sequence: React flattens the
\* nested arrays of children in order
RECURSIVE Flatten(_)
Flatten(ss) == IF ss = << >> THEN << >> ELSE Head(ss) \o Flatten(Tail(ss))

\* A render loop that draws each row from right to left
RenderLoop_RightToLeft(vr) ==
  LET rows == ArrayFrom(vr.endRow - vr.startRow, vr.startRow)
      cols == ArrayFrom(vr.endCol - vr.startCol, vr.startCol)
  IN Flatten([i \in 1..Len(rows) |->
                [j \in 1..Len(cols) |-> RenderCell(rows[i], cols[Len(cols) + 1 - j])]])

\* The render loop (App.tsx 1150-1161): the descriptors in the order the
\* nested map produces them
RenderLoop(vr) ==
  LET rows == ArrayFrom(vr.endRow - vr.startRow, vr.startRow)
      cols == ArrayFrom(vr.endCol - vr.startCol, vr.startCol)
  IN Flatten([i \in 1..Len(rows) |->
                [j \in 1..Len(cols) |-> RenderCell(rows[i], cols[j])]])

\* The editor input exists in the current render (App.tsx 1083-1092)
InputMounted ==
  editingCell # NULL /\ IsRendered(visibleRange, editingCell.row, editingCell.col)

\* ------------------------------------------------------------------------
\* Labels: getColumnName and getCellRef (App.tsx 909-921). A string is the
\* sequence of its characters.

\* String.fromCharCode(65 + k) for k in 0..25
Letters == <<"A", "B", "C", "D", "E", "F", "G", "H", "I", "J", "K", "L", "M",
             "N", "O", "P", "Q", "R", "S", "T", "U", "V", "W", "X", "Y", "Z">>
Letter(k) == Letters[k + 1]

\* The decimal digits a number is formatted with
DigitChars == <<"0", "1", "2", "3", "4", "5", "6", "7", "8", "9">>

\* A formatting that keeps the last digit only
Decimal_LastDigit(n) == << DigitChars[(n % 10) + 1] >>

\* `${n}` for an integer n >= 0
RECURSIVE Decimal(_)
Decimal(n) ==
  IF n < 10 THEN << DigitChars[n + 1] >>
  ELSE Decimal(n \div 10) \o << DigitChars[(n % 10) + 1] >>

\* A num carried to the next position as in plain base 26
NextNum_PlainBase26(n) == IF n < 26 THEN -1 ELSE Floor(n, 26)

\* num = Math.floor(num / 26) - 1 (App.tsx 914)
NextNum(n) == Floor(n, 26) - 1

\* The while loop of getColumnName from the locals (n, nm) on
RECURSIVE GetColumnNameFrom(_, _)
GetColumnNameFrom(n, nm) ==
  IF n >= 0 THEN GetColumnNameFrom(NextNum(n), << Letter(n % 26) >> \o nm) ELSE nm

\* getColumnName (App.tsx 909-917)
GetColumnName(index) == GetColumnNameFrom(index, << >>)

\* getCellRef (App.tsx 919-921)
GetCellRef(row, col) == GetColumnName(col) \o Decimal(row + 1)

\* No getCellRef call is being followed
LabelsIdle ==
  /\ refRow = 0
  /\ refCol = 0
  /\ num = 0
  /\ name = << >>
  /\ cellRef = << >>
  /\ labelPc = "idle"

\* ------------------------------------------------------------------------
\* The cell-mutation callback: handleCellChange (App.tsx 452-465)

\* data![row][col] = value throws a TypeError when data[row] is undefined
CellChangeThrows(d, row) == row >= Len(d)

\* data![row][col] = value on an existing row: an assignment past the end of
\* the row lengthens it, and the holes it leaves read as ''
WriteCell(d, row, col, value) ==
  LET old == d[row + 1]
      new == [i \in 1..Max(Len(old), col + 1) |->
                IF i = col + 1 THEN value
                ELSE IF i <= Len(old) THEN old[i] ELSE ""]
  IN [d EXCEPT ![row + 1] = new]

\* A handleCellChange whose updater returns the session unwritten
HandleCellChange_NoWrite(d, row, col, value) == d

\* The data after onCellChange(row, col, value)
HandleCellChange(d, row, col, value) ==
  IF CellChangeThrows(d, row) THEN d ELSE WriteCell(d, row, col, value)

\* ------------------------------------------------------------------------
\* Cell persistence: the rest of handleCellChange (App.tsx 455, 467-473)

\* The name of the sheet displayed, activeSheet: the workbooks of the model
\* have one sheet
SheetName == <<"S", "1">>

\* cellKey = `${activeSheet}-${row}-${col}` (App.tsx 455)
CellKey(row, col) == SheetName \o <<"-">> \o Decimal(row) \o <<"-">> \o Decimal(col)

\* The timer setTimeout creates at App.tsx 473: its callback closes over
\* session, row, col and value of the handleCellChange call
NewTimer(id, row, col, value) ==
  [id |-> id, key |-> CellKey(row, col), session_id |-> session.session_id,
   row |-> row, col |-> col, value |-> value, left |-> DEBOUNCE_MS]

\* f with f[k] = v, k added to the domain when it is new
Put(f, k, v) == [x \in DOMAIN f \cup {k} |-> IF x = k THEN v ELSE f[x]]

\* A handleCellChange that arms its timer without clearing the one already
\* stored under the cell key
ScheduleUpdate_NoClear(row, col, value) ==
  LET key == CellKey(row, col)
      id == nTimers + 1
  IN /\ timers' = timers \cup {NewTimer(id, row, col, value)}
     /\ updateTimeouts' = Put(updateTimeouts, key, id)
     /\ pendingUpdates' = pendingUpdates \cup {key}
     /\ nTimers' = id
     /\ sinceCommit' = Put(sinceCommit, key, 0)
     /\ sendsSince' = Put(sendsSince, key, 0)
     /\ UNCHANGED <<requests, sent>>

\* App.tsx 467-473: clearTimeout of the timer stored under the key (of no
\* effect when that timer has fired), the key added to pendingUpdates, a new
\* timer armed and stored under the key
ScheduleUpdate(row, col, value) ==
  LET key == CellKey(row, col)
      id == nTimers + 1
      cleared == IF key \in DOMAIN updateTimeouts THEN {updateTimeouts[key]} ELSE {}
  IN /\ timers' = {t \in timers : t.id \notin cleared} \cup {NewTimer(id, row, col, value)}
     /\ updateTimeouts' = Put(updateTimeouts, key, id)
     /\ pendingUpdates' = pendingUpdates \cup {key}
     /\ nTimers' = id
     /\ sinceCommit' = Put(sinceCommit, key, 0)
     /\ sendsSince' = Put(sendsSince, key, 0)
     /\ UNCHANGED <<requests, sent>>

\* No cell change has been made
PersistIdle ==
  /\ pendingUpdates = {}
  /\ updateTimeouts = << >>
  /\ timers = {}
  /\ nTimers = 0
  /\ requests = {}
  /\ sent = << >>
  /\ sinceCommit = << >>
  /\ sendsSince = << >>

\* The state handleFileUpload sets when the upload succeeded (App.tsx
\* 428-441): the session, the timer started, the analysis as first message
SessionOpened(id) ==
  /\ session = [session_id |-> id]
  /\ messages = << "system" >>
  /\ elapsed = [seconds |-> 0]
  /\ showTimeoutWarning = FALSE
  /\ timeLeft = 0
  /\ dismissed = FALSE

\* ------------------------------------------------------------------------
\* saveEdit (App.tsx 985-991), as the closure over (ec, ev) = the editingCell
\* and editValue of the render that created it

\* The onCellChange invocations of saveEdit
SaveEditCalls(ec, ev) ==
  IF ec # NULL THEN << [row |-> ec.row, col |-> ec.col, value |-> ev] >> ELSE << >>

\* setEditingCell(null); setEditValue('')
ClearEdit ==
  /\ editingCell' = NULL
  /\ editValue' = ""

\* A saveEdit that reads editingCell.row without testing editingCell: the
\* read of a property of null throws
SaveEdit_NoGuard(ec, ev) ==
  /\ (ec # NULL) => nCommits < MaxCommits
  /\ cellCalls' = SaveEditCalls(ec, ev)
  /\ nCommits' = nCommits + Len(SaveEditCalls(ec, ev))
  /\ data' = IF ec = NULL THEN data ELSE HandleCellChange(data, ec.row, ec.col, ev)
  /\ crashed' = (ec = NULL \/ CellChangeThrows(data, ec.row))
  /\ IF ec = NULL THEN UNCHANGED persistVars ELSE ScheduleUpdate(ec.row, ec.col, ev)
  /\ ClearEdit

SaveEdit(ec, ev) ==
  /\ (ec # NULL) => nCommits < MaxCommits
  /\ cellCalls' = SaveEditCalls(ec, ev)
  /\ nCommits' = nCommits + Len(SaveEditCalls(ec, ev))
  /\ data' = IF ec = NULL THEN data ELSE HandleCellChange(data, ec.row, ec.col, ev)
  /\ crashed' = (ec # NULL /\ CellChangeThrows(data, ec.row))
  /\ IF ec = NULL THEN UNCHANGED persistVars ELSE ScheduleUpdate(ec.row, ec.col, ev)
  /\ ClearEdit

\* The saveEdit that the handleMouseDown of the next render holds: replaced
\* when editingCell changed (App.tsx 955), kept otherwise
MemoMouseDown(changed) ==
  mdSaveEdit' = IF changed THEN [ec |-> editingCell', ev |-> editValue'] ELSE mdSaveEdit

\* ------------------------------------------------------------------------
\* Init: the state of the first render. scrollContainerRef.current is null
\* during it, so visibleRange is the fallback range.
InitState(d, w, h) ==
  /\ data = d
  /\ columnWidths = << >>
  /\ selection = NULL
  /\ isSelecting = FALSE
  /\ editingCell = NULL
  /\ editValue = ""
  /\ scrollPosition = [x |-> 0, y |-> 0]
  /\ resizingColumn = NULL
  /\ resizeStartX = 0
  /\ resizeStartWidth = 0
  /\ clientWidth = w
  /\ clientHeight = h
  /\ visibleRange = FallbackRange
  /\ mdSaveEdit = [ec |-> NULL, ev |-> ""]
  /\ crashed = FALSE
  /\ nCommits = 0
  /\ lastOp = "mount"
  /\ cellCalls = << >>
  /\ selCalls = << >>
  /\ buttonDown = FALSE
  /\ SessionOpened(1)
  /\ nSessions = 1
  /\ isUploading = FALSE
  /\ error = NULL
  /\ PersistIdle
  /\ isLoading = FALSE
  /\ chats = {}
  /\ nSends = 0

viewVars == <<columnWidths, scrollPosition, resizingColumn, resizeStartX,
              resizeStartWidth, clientWidth, clientHeight>>
editVars == <<editingCell, editValue, mdSaveEdit>>
selVars == <<selection, isSelecting>>

\* ------------------------------------------------------------------------
\* Selection (App.tsx 941-973)

\* A handleMouseDown that returns after saveEdit when an edit is open
handleMouseDown_EditSwallowsPress(row, col) ==
  /\ ~crashed
  /\ UNCHANGED <<labelVars, sessionVars, chatVars>>
  /\ buttonDown' = TRUE
  /\ IsRendered(visibleRange, row, col)
  /\ lastOp' = "handleMouseDown"
  /\ IF editingCell # NULL
     THEN /\ SaveEdit(mdSaveEdit.ec, mdSaveEdit.ev)
          /\ MemoMouseDown(TRUE)
          /\ selCalls' = << >>
          /\ UNCHANGED selVars
     ELSE /\ UNCHANGED <<persistVars, data, crashed, nCommits, editingCell, editValue, mdSaveEdit>>
          /\ cellCalls' = << >>
          /\ selection' = [start |-> CellAt(row, col), end |-> CellAt(row, col)]
          /\ isSelecting' = TRUE
          /\ selCalls' = << selection' >>
  /\ visibleRange' = MemoVisibleRange(FALSE, scrollPosition, columnWidths, data')
  /\ UNCHANGED viewVars

handleMouseDown(row, col) ==
  /\ ~crashed
  /\ UNCHANGED <<labelVars, sessionVars, chatVars>>
  /\ buttonDown' = TRUE
  /\ IsRendered(visibleRange, row, col)
  /\ lastOp' = "handleMouseDown"
  /\ IF editingCell # NULL
     THEN /\ SaveEdit(mdSaveEdit.ec, mdSaveEdit.ev)
          /\ MemoMouseDown(TRUE)
     ELSE /\ UNCHANGED <<persistVars, data, crashed, nCommits, editingCell, editValue, mdSaveEdit>>
          /\ cellCalls' = << >>
  /\ selection' = [start |-> CellAt(row, col), end |-> CellAt(row, col)]
  /\ isSelecting' = TRUE
  /\ selCalls' = << selection' >>
  /\ visibleRange' = MemoVisibleRange(FALSE, scrollPosition, columnWidths, data')
  /\ UNCHANGED viewVars

\* A handleMouseMove that extends any existing selection, dragging or not
handleMouseMove_IgnoresDragFlag(row, col) ==
  /\ ~crashed
  /\ UNCHANGED <<labelVars, sessionVars, chatVars>>
  /\ UNCHANGED buttonDown
  /\ IsRendered(visibleRange, row, col)
  /\ lastOp' = "handleMouseMove"
  /\ IF selection # NULL
     THEN /\ selection' = [selection EXCEPT !.end = CellAt(row, col)]
          /\ selCalls' = << selection' >>
     ELSE /\ selection' = selection
          /\ selCalls' = << >>
  /\ cellCalls' = << >>
  /\ UNCHANGED <<persistVars, data, crashed, nCommits, isSelecting, visibleRange>>
  /\ UNCHANGED editVars
  /\ UNCHANGED viewVars

\* A handleMouseMove that reports the selection it replaced
handleMouseMove_ReportsOld(row, col) ==
  /\ ~crashed
  /\ UNCHANGED <<labelVars, sessionVars, chatVars>>
  /\ UNCHANGED buttonDown
  /\ IsRendered(visibleRange, row, col)
  /\ lastOp' = "handleMouseMove"
  /\ IF isSelecting /\ selection # NULL
     THEN /\ selection' = [selection EXCEPT !.end = CellAt(row, col)]
          /\ selCalls' = << selection >>
     ELSE /\ selection' = selection
          /\ selCalls' = << >>
  /\ cellCalls' = << >>
  /\ UNCHANGED <<persistVars, data, crashed, nCommits, isSelecting, visibleRange>>
  /\ UNCHANGED editVars
  /\ UNCHANGED viewVars

\* A handleMouseMove that returns early when the cell is already the end of
\* the selection
handleMouseMove_SuppressDuplicate(row, col) ==
  /\ ~crashed
  /\ UNCHANGED <<labelVars, sessionVars, chatVars>>
  /\ UNCHANGED buttonDown
  /\ IsRendered(visibleRange, row, col)
  /\ lastOp' = "handleMouseMove"
  /\ IF isSelecting /\ selection # NULL /\ selection.end # CellAt(row, col)
     THEN /\ selection' = [selection EXCEPT !.end = CellAt(row, col)]
          /\ selCalls' = << selection' >>
     ELSE /\ selection' = selection
          /\ selCalls' = << >>
  /\ cellCalls' = << >>
  /\ UNCHANGED <<persistVars, data, crashed, nCommits, isSelecting, visibleRange>>
  /\ UNCHANGED editVars
  /\ UNCHANGED viewVars

handleMouseMove(row, col) ==
  /\ ~crashed
  /\ UNCHANGED <<labelVars, sessionVars, chatVars>>
  /\ UNCHANGED buttonDown
  /\ IsRendered(visibleRange, row, col)
  /\ lastOp' = "handleMouseMove"
  /\ IF isSelecting /\ selection # NULL
     THEN /\ selection' = [selection EXCEPT !.end = CellAt(row, col)]
          /\ selCalls' = << selection' >>
     ELSE /\ selection' = selection
          /\ selCalls' = << >>
  /\ cellCalls' = << >>
  /\ UNCHANGED <<persistVars, data, crashed, nCommits, isSelecting, visibleRange>>
  /\ UNCHANGED editVars
  /\ UNCHANGED viewVars

\* A handleMouseUp that also drops the selection
handleMouseUp_ClearsSelection ==
  /\ ~crashed
  /\ UNCHANGED <<labelVars, sessionVars, chatVars>>
  /\ buttonDown' = FALSE
  /\ lastOp' = "handleMouseUp"
  /\ isSelecting' = FALSE
  /\ selection' = NULL
  /\ cellCalls' = << >>
  /\ selCalls' = << >>
  /\ UNCHANGED <<persistVars, data, crashed, nCommits, visibleRange>>
  /\ UNCHANGED editVars
  /\ UNCHANGED viewVars

handleMouseUp ==
  /\ ~crashed
  /\ UNCHANGED <<labelVars, sessionVars, chatVars>>
  /\ buttonDown' = FALSE
  /\ lastOp' = "handleMouseUp"
  /\ isSelecting' = FALSE
  /\ cellCalls' = << >>
  /\ selCalls' = << >>
  /\ UNCHANGED <<persistVars, data, crashed, nCommits, selection, visibleRange>>
  /\ UNCHANGED editVars
  /\ UNCHANGED viewVars

\* The button is released while the pointer is outside the grid container
\* and no column is being resized: onMouseUp is bound to the container only
\* (App.tsx 1101) and the document listeners exist only during a resize
\* (App.tsx 1027-1036), so no handler runs
mouseUpOutside ==
  /\ ~crashed
  /\ UNCHANGED <<labelVars, sessionVars, chatVars>>
  /\ buttonDown
  /\ resizingColumn = NULL
  /\ buttonDown' = FALSE
  /\ lastOp' = "mouseUpOutside"
  /\ cellCalls' = << >>
  /\ selCalls' = << >>
  /\ UNCHANGED <<persistVars, data, crashed, nCommits, visibleRange>>
  /\ UNCHANGED editVars
  /\ UNCHANGED selVars
  /\ UNCHANGED viewVars

\* ------------------------------------------------------------------------
\* Editing (App.tsx 976-1000, 1083-1092)

handleDoubleClick(row, col) ==
  /\ ~crashed
  /\ UNCHANGED <<labelVars, sessionVars, chatVars>>
  /\ UNCHANGED buttonDown
  /\ IsRendered(visibleRange, row, col)
  /\ lastOp' = "handleDoubleClick"
  /\ editingCell' = CellAt(row, col)
  /\ editValue' = CellValue(data, row, col)
  /\ MemoMouseDown(TRUE)
  /\ cellCalls' = << >>
  /\ selCalls' = << >>
  /\ UNCHANGED <<persistVars, data, crashed, nCommits, visibleRange>>
  /\ UNCHANGED selVars
  /\ UNCHANGED viewVars

handleEditChange(v) ==
  /\ ~crashed
  /\ UNCHANGED <<labelVars, sessionVars, chatVars>>
  /\ UNCHANGED buttonDown
  /\ InputMounted
  /\ lastOp' = "handleEditChange"
  /\ editValue' = v
  /\ cellCalls' = << >>
  /\ selCalls' = << >>
  /\ UNCHANGED <<persistVars, data, crashed, nCommits, visibleRange, editingCell, mdSaveEdit>>
  /\ UNCHANGED selVars
  /\ UNCHANGED viewVars

\* A handleEditKeyDown whose Escape branch saves like Enter
handleEditKeyDown_EscapeSaves(key) ==
  /\ ~crashed
  /\ UNCHANGED <<labelVars, sessionVars, chatVars>>
  /\ UNCHANGED buttonDown
  /\ InputMounted
  /\ lastOp' = key
  /\ IF key = "Enter" \/ key = "Escape"
     THEN /\ SaveEdit(editingCell, editValue)
          /\ MemoMouseDown(TRUE)
     ELSE /\ cellCalls' = << >>
          /\ UNCHANGED <<persistVars, data, crashed, nCommits>>
          /\ UNCHANGED editVars
  /\ selCalls' = << >>
  /\ visibleRange' = MemoVisibleRange(FALSE, scrollPosition, columnWidths, data')
  /\ UNCHANGED selVars
  /\ UNCHANGED viewVars

\* key is e.key; the handler ignores every key but Enter and Escape
handleEditKeyDown(key) ==
  /\ ~crashed
  /\ UNCHANGED <<labelVars, sessionVars, chatVars>>
  /\ UNCHANGED buttonDown
  /\ InputMounted
  /\ lastOp' = key
  /\ IF key = "Enter"
     THEN /\ SaveEdit(editingCell, editValue)
          /\ MemoMouseDown(TRUE)
     ELSE IF key = "Escape"
     THEN /\ ClearEdit
          /\ MemoMouseDown(TRUE)
          /\ cellCalls' = << >>
          /\ UNCHANGED <<persistVars, data, crashed, nCommits>>
     ELSE /\ cellCalls' = << >>
          /\ UNCHANGED <<persistVars, data, crashed, nCommits>>
          /\ UNCHANGED editVars
  /\ selCalls' = << >>
  /\ visibleRange' = MemoVisibleRange(FALSE, scrollPosition, columnWidths, data')
  /\ UNCHANGED selVars
  /\ UNCHANGED viewVars

\* onBlur={saveEdit} of the editor input (App.tsx 1090)
handleEditBlur ==
  /\ ~crashed
  /\ UNCHANGED <<labelVars, sessionVars, chatVars>>
  /\ UNCHANGED buttonDown
  /\ InputMounted
  /\ lastOp' = "blur"
  /\ SaveEdit(editingCell, editValue)
  /\ MemoMouseDown(TRUE)
  /\ selCalls' = << >>
  /\ visibleRange' = MemoVisibleRange(FALSE, scrollPosition, columnWidths, data')
  /\ UNCHANGED selVars
  /\ UNCHANGED viewVars

\* ------------------------------------------------------------------------
\* Scrolling and the container (App.tsx 932-938, 872-873)

\* The offsets the scroll container can report: 0 .. content size - client size
CanScrollTo(x, y) ==
  /\ 0 <= x /\ x <= Max(0, TotalWidth(data, columnWidths) - clientWidth)
  /\ 0 <= y /\ y <= Max(0, TotalHeight(data) - clientHeight)

handleScroll(x, y) ==
  /\ ~crashed
  /\ UNCHANGED <<labelVars, sessionVars, chatVars>>
  /\ UNCHANGED buttonDown
  /\ CanScrollTo(x, y)
  /\ <<x, y>> # <<scrollPosition.x, scrollPosition.y>>
  /\ lastOp' = "handleScroll"
  /\ scrollPosition' = [x |-> x, y |-> y]
  /\ visibleRange' = MemoVisibleRange(TRUE, scrollPosition', columnWidths, data)
  /\ cellCalls' = << >>
  /\ selCalls' = << >>
  /\ UNCHANGED <<persistVars, data, crashed, nCommits, columnWidths, resizingColumn, resizeStartX,
                 resizeStartWidth, clientWidth, clientHeight>>
  /\ UNCHANGED editVars
  /\ UNCHANGED selVars

\* The host lays the container out anew: the component is not told, so
\* nothing re-renders
ContainerResize(w, h) ==
  /\ ~crashed
  /\ UNCHANGED <<labelVars, sessionVars, chatVars>>
  /\ UNCHANGED buttonDown
  /\ <<w, h>> # <<clientWidth, clientHeight>>
  /\ lastOp' = "containerResize"
  /\ clientWidth' = w
  /\ clientHeight' = h
  /\ cellCalls' = << >>
  /\ selCalls' = << >>
  /\ UNCHANGED <<persistVars, data, crashed, nCommits, columnWidths, scrollPosition, resizingColumn,
                 resizeStartX, resizeStartWidth, visibleRange>>
  /\ UNCHANGED editVars
  /\ UNCHANGED selVars

\* ------------------------------------------------------------------------
\* Column resize (App.tsx 1003-1036)

\* A handleColumnResizeStart that stores the width it starts from
handleColumnResizeStart_WritesWidth(col, clientX) ==
  /\ ~crashed
  /\ UNCHANGED <<labelVars, sessionVars, chatVars>>
  /\ buttonDown' = TRUE
  /\ 0 <= col /\ col < TotalCols(data)
  /\ lastOp' = "handleColumnResizeStart"
  /\ resizingColumn' = [col |-> col]
  /\ resizeStartX' = clientX
  /\ resizeStartWidth' = ColWidth(columnWidths, col)
  /\ columnWidths' = (col :> ColWidth(columnWidths, col)) @@ columnWidths
  /\ cellCalls' = << >>
  /\ selCalls' = << >>
  /\ UNCHANGED <<persistVars, data, crashed, nCommits, scrollPosition, clientWidth,
                 clientHeight, visibleRange>>
  /\ UNCHANGED editVars
  /\ UNCHANGED selVars

handleColumnResizeStart(col, clientX) ==
  /\ ~crashed
  /\ UNCHANGED <<labelVars, sessionVars, chatVars>>
  /\ buttonDown' = TRUE
  /\ 0 <= col /\ col < TotalCols(data)
  /\ lastOp' = "handleColumnResizeStart"
  /\ resizingColumn' = [col |-> col]
  /\ resizeStartX' = clientX
  /\ resizeStartWidth' = ColWidth(columnWidths, col)
  /\ cellCalls' = << >>
  /\ selCalls' = << >>
  /\ UNCHANGED <<persistVars, data, crashed, nCommits, columnWidths, scrollPosition, clientWidth,
                 clientHeight, visibleRange>>
  /\ UNCHANGED editVars
  /\ UNCHANGED selVars

\* A new width that is not clamped to the floor
NewWidth_NoClamp(startWidth, startX, clientX) == startWidth + (clientX - startX)

\* Math.max(MIN_CELL_WIDTH, resizeStartWidth + diff) (App.tsx 1013-1014)
NewWidth(startWidth, startX, clientX) ==
  Max(MIN_CELL_WIDTH, startWidth + (clientX - startX))

\* {...prev, [resizingColumn]: newWidth} (App.tsx 1015-1018)
SetWidth(cw, col, w) == (col :> w) @@ cw

\* A handleColumnResize that adds the pointer's offset to the current width
handleColumnResize_Accumulates(clientX) ==
  /\ ~crashed
  /\ UNCHANGED <<labelVars, sessionVars, chatVars>>
  /\ UNCHANGED buttonDown
  /\ resizingColumn # NULL
  /\ NewWidth(ColWidth(columnWidths, resizingColumn.col), resizeStartX, clientX) <= MaxColWidth
  /\ lastOp' = "handleColumnResize"
  /\ columnWidths' = SetWidth(columnWidths, resizingColumn.col,
                              NewWidth(ColWidth(columnWidths, resizingColumn.col),
                                       resizeStartX, clientX))
  /\ visibleRange' = MemoVisibleRange(TRUE, scrollPosition, columnWidths', data)
  /\ cellCalls' = << >>
  /\ selCalls' = << >>
  /\ UNCHANGED <<persistVars, data, crashed, nCommits, scrollPosition, resizingColumn, resizeStartX,
                 resizeStartWidth, clientWidth, clientHeight>>
  /\ UNCHANGED editVars
  /\ UNCHANGED selVars

handleColumnResize(clientX) ==
  /\ ~crashed
  /\ UNCHANGED <<labelVars, sessionVars, chatVars>>
  /\ UNCHANGED buttonDown
  /\ resizingColumn # NULL
  /\ NewWidth(resizeStartWidth, resizeStartX, clientX) <= MaxColWidth
  /\ lastOp' = "handleColumnResize"
  /\ columnWidths' = SetWidth(columnWidths, resizingColumn.col,
                              NewWidth(resizeStartWidth, resizeStartX, clientX))
  /\ visibleRange' = MemoVisibleRange(TRUE, scrollPosition, columnWidths', data)
  /\ cellCalls' = << >>
  /\ selCalls' = << >>
  /\ UNCHANGED <<persistVars, data, crashed, nCommits, scrollPosition, resizingColumn, resizeStartX,
                 resizeStartWidth, clientWidth, clientHeight>>
  /\ UNCHANGED editVars
  /\ UNCHANGED selVars

\* A handleColumnResizeEnd that leaves the session open
handleColumnResizeEnd_KeepsSession ==
  /\ ~crashed
  /\ UNCHANGED <<labelVars, sessionVars, chatVars>>
  /\ buttonDown' = FALSE
  /\ resizingColumn # NULL
  /\ lastOp' = "handleColumnResizeEnd"
  /\ cellCalls' = << >>
  /\ selCalls' = << >>
  /\ UNCHANGED <<persistVars, data, crashed, nCommits, columnWidths, scrollPosition, resizingColumn,
                 resizeStartX, resizeStartWidth, clientWidth, clientHeight, visibleRange>>
  /\ UNCHANGED editVars
  /\ UNCHANGED selVars

handleColumnResizeEnd ==
  /\ ~crashed
  /\ UNCHANGED <<labelVars, sessionVars, chatVars>>
  /\ buttonDown' = FALSE
  /\ resizingColumn # NULL
  /\ lastOp' = "handleColumnResizeEnd"
  /\ resizingColumn' = NULL
  /\ cellCalls' = << >>
  /\ selCalls' = << >>
  /\ UNCHANGED <<persistVars, data, crashed, nCommits, columnWidths, scrollPosition, resizeStartX,
                 resizeStartWidth, clientWidth, clientHeight, visibleRange>>
  /\ UNCHANGED editVars
  /\ UNCHANGED selVars

\* A mousemove on the document while no resize session is open: the effect
\* of App.tsx 1027-1036 has removed the listeners in the render that
\* followed the release, so no handler runs and nothing re-renders
documentMouseMove(clientX) ==
  /\ ~crashed
  /\ UNCHANGED <<labelVars, sessionVars, chatVars>>
  /\ UNCHANGED buttonDown
  /\ resizingColumn = NULL
  /\ lastOp' = "mousemove"
  /\ cellCalls' = << >>
  /\ selCalls' = << >>
  /\ UNCHANGED <<persistVars, data, crashed, nCommits, columnWidths, scrollPosition, resizingColumn,
                 resizeStartX, resizeStartWidth, clientWidth, clientHeight, visibleRange>>
  /\ UNCHANGED editVars
  /\ UNCHANGED selVars

\* ------------------------------------------------------------------------
\* An external data refresh: the session is fetched again after a chat answer
\* and the grid receives a new data prop (App.tsx 568-573, 659-660, 770)
ReplaceGrid(g) ==
  /\ ~crashed
  /\ UNCHANGED <<labelVars, sessionVars, chatVars>>
  /\ UNCHANGED buttonDown
  /\ lastOp' = "replaceGrid"
  /\ data' = g
  /\ visibleRange' = MemoVisibleRange(FALSE, scrollPosition, columnWidths, g)
  /\ cellCalls' = << >>
  /\ selCalls' = << >>
  /\ UNCHANGED <<persistVars, crashed, nCommits>>
  /\ UNCHANGED editVars
  /\ UNCHANGED selVars
  /\ UNCHANGED viewVars

\* ------------------------------------------------------------------------
\* The session and its timer (App.tsx 366-448, 700-708)

\* The grid is left as it is by the handlers of App
gridUiVars == <<columnWidths, selection, isSelecting, editingCell, editValue,
                scrollPosition, resizingColumn, resizeStartX, resizeStartWidth,
                clientWidth, clientHeight, visibleRange, mdSaveEdit, crashed,
                buttonDown, labelVars>>

\* The seconds since sessionStartTime at which the model looks at the
\* interval callback: the values on both sides of each threshold of
\* SESSION_TIMEOUT and of one hour. The ticks between two of them take the
\* same branch of the callback as the later one.
TickInstants ==
  {0, 1, 3299, 3300, 3301, 3599, 3600, 3601,
   SESSION_TIMEOUT - WARNING_TIME - 1, SESSION_TIMEOUT - WARNING_TIME,
   SESSION_TIMEOUT - WARNING_TIME + 1, SESSION_TIMEOUT - 1, SESSION_TIMEOUT}

NextInstant(e) == CHOOSE i \in TickInstants :
                    i > e /\ \A j \in TickInstants : j > e => i <= j

\* setError('Session expirée. Veuillez recharger un fichier.') (App.tsx 380)
ExpiredError == [message |-> "Session expiree. Veuillez recharger un fichier."]
UploadError == [message |-> "Erreur lors de l'upload du fichier"]
UpdateError == [message |-> "Erreur lors de la mise a jour de la cellule"]

\* setSession(null); setMessages([]); setSessionStartTime(null);
\* setShowTimeoutWarning(false) (App.tsx 376-379, 703-706)
ClearSession ==
  /\ session' = NULL
  /\ messages' = << >>
  /\ elapsed' = NULL
  /\ showTimeoutWarning' = FALSE
  /\ dismissed' = FALSE

\* The callback of setInterval (App.tsx 369-388) run when e whole seconds
\* have passed since sessionStartTime
IntervalCallback(e) ==
  LET remaining == SESSION_TIMEOUT - e
  IN IF remaining <= 0
     THEN /\ ClearSession
          /\ error' = ExpiredError
          /\ UNCHANGED timeLeft
     ELSE /\ elapsed' = [seconds |-> e]
          /\ UNCHANGED <<session, messages, error, dismissed>>
          /\ IF remaining <= WARNING_TIME /\ ~showTimeoutWarning
             THEN showTimeoutWarning' = TRUE /\ timeLeft' = remaining
             ELSE IF showTimeoutWarning
             THEN timeLeft' = remaining /\ UNCHANGED showTimeoutWarning
             ELSE UNCHANGED <<showTimeoutWarning, timeLeft>>

\* A tick of the interval, which exists while sessionStartTime is set
\* (App.tsx 367). A tick one second after the last may come while an
\* update timer is armed; a later one comes after the timers have fired.
intervalTick ==
  /\ ~crashed
  /\ elapsed # NULL
  /\ elapsed.seconds < SESSION_TIMEOUT
  /\ (timers # {}) => NextInstant(elapsed.seconds) = elapsed.seconds + 1
  /\ IntervalCallback(NextInstant(elapsed.seconds))
  /\ lastOp' = "intervalTick"
  /\ cellCalls' = << >>
  /\ selCalls' = << >>
  /\ UNCHANGED <<nSessions, isUploading, data, nCommits>>
  /\ UNCHANGED <<gridUiVars, persistVars, chatVars>>

\* handleExtendSession (App.tsx 393-403), the button 'Continuer a
\* travailler' of the warning; the answer to its fetch is ignored
handleExtendSession ==
  /\ ~crashed
  /\ showTimeoutWarning
  /\ elapsed' = [seconds |-> 0]
  /\ showTimeoutWarning' = FALSE
  /\ dismissed' = FALSE
  /\ lastOp' = "handleExtendSession"
  /\ cellCalls' = << >>
  /\ selCalls' = << >>
  /\ UNCHANGED <<session, nSessions, isUploading, messages, error, timeLeft, data, nCommits>>
  /\ UNCHANGED <<gridUiVars, persistVars, chatVars>>

\* onClose of the warning, its button 'Ignorer' (App.tsx 669)
dismissWarning ==
  /\ ~crashed
  /\ showTimeoutWarning
  /\ showTimeoutWarning' = FALSE
  /\ dismissed' = TRUE
  /\ lastOp' = "dismissWarning"
  /\ cellCalls' = << >>
  /\ selCalls' = << >>
  /\ UNCHANGED <<session, nSessions, isUploading, messages, error, elapsed, timeLeft,
                 data, nCommits>>
  /\ UNCHANGED <<gridUiVars, persistVars, chatVars>>

\* The close button of the header (App.tsx 700-708); confirmed is the
\* answer to window.confirm
closeSession(confirmed) ==
  /\ ~crashed
  /\ session # NULL
  /\ IF confirmed
     THEN ClearSession
     ELSE UNCHANGED <<session, messages, elapsed, showTimeoutWarning, dismissed>>
  /\ lastOp' = "closeSession"
  /\ cellCalls' = << >>
  /\ selCalls' = << >>
  /\ UNCHANGED <<nSessions, isUploading, error, timeLeft, data, nCommits>>
  /\ UNCHANGED <<gridUiVars, persistVars, chatVars>>

\* handleFileUpload up to its fetch (App.tsx 405-416). The upload zone is
\* rendered while session is null and covered while isUploading.
handleFileUpload ==
  /\ ~crashed
  /\ session = NULL
  /\ ~isUploading
  /\ nSessions < MaxSessions
  /\ isUploading' = TRUE
  /\ error' = NULL
  /\ lastOp' = "handleFileUpload"
  /\ cellCalls' = << >>
  /\ selCalls' = << >>
  /\ UNCHANGED <<session, nSessions, messages, elapsed, showTimeoutWarning, timeLeft,
                 dismissed, data, nCommits>>
  /\ UNCHANGED <<gridUiVars, persistVars, chatVars>>

\* handleFileUpload from the answer on (App.tsx 418-447): the backend has
\* created the session nSessions + 1 holding the sheet g
uploadResponse(ok, g) ==
  /\ ~crashed
  /\ isUploading
  /\ isUploading' = FALSE
  /\ IF ok
     THEN /\ session' = [session_id |-> nSessions + 1]
          /\ nSessions' = nSessions + 1
          /\ messages' = << "system" >>
          /\ elapsed' = [seconds |-> 0]
          /\ showTimeoutWarning' = FALSE
          /\ dismissed' = FALSE
          /\ data' = g
          /\ UNCHANGED error
     ELSE /\ error' = UploadError
          /\ UNCHANGED <<session, nSessions, messages, elapsed, showTimeoutWarning,
                         dismissed, data>>
  /\ lastOp' = "uploadResponse"
  /\ cellCalls' = << >>
  /\ selCalls' = << >>
  /\ UNCHANGED <<timeLeft, nCommits>>
  /\ UNCHANGED <<gridUiVars, persistVars, chatVars>>

\* ------------------------------------------------------------------------
\* Cell persistence (App.tsx 450-503)

\* The history sinceCommit is followed up to this age
AgeCap == 2 * DEBOUNCE_MS

\* handleCellChange(row, col, value) (App.tsx 452-503), the onCellChange of
\* the grid, which is rendered while session is set (App.tsx 637)
handleCellChange(row, col, value) ==
  /\ ~crashed
  /\ session # NULL
  /\ nCommits < MaxCellChanges
  /\ data' = HandleCellChange(data, row, col, value)
  /\ crashed' = CellChangeThrows(data, row)
  /\ ScheduleUpdate(row, col, value)
  /\ nCommits' = nCommits + 1
  /\ lastOp' = "handleCellChange"
  /\ cellCalls' = << [row |-> row, col |-> col, value |-> value] >>
  /\ selCalls' = << >>
  /\ visibleRange' = MemoVisibleRange(FALSE, scrollPosition, columnWidths, data')
  /\ UNCHANGED <<labelVars, sessionVars, chatVars, buttonDown>>
  /\ UNCHANGED editVars
  /\ UNCHANGED selVars
  /\ UNCHANGED viewVars

\* d milliseconds pass in which no event is delivered: every armed timer
\* comes d closer to its time, and a timer that is due fires before more
\* time passes
advanceTime(d) ==
  /\ timers # {} \/ \E k \in DOMAIN sinceCommit : sinceCommit[k] < AgeCap
  /\ \A t \in timers : t.left >= d
  /\ timers' = {[t EXCEPT !.left = @ - d] : t \in timers}
  /\ sinceCommit' = [k \in DOMAIN sinceCommit |-> Min(sinceCommit[k] + d, AgeCap)]
  /\ UNCHANGED <<pendingUpdates, updateTimeouts, nTimers, requests, sent, sendsSince>>
  /\ UNCHANGED <<data, nCommits, lastOp, cellCalls, selCalls>>
  /\ UNCHANGED <<gridUiVars, sessionVars, chatVars>>

\* The body of the update-cell request of the timer t (App.tsx 480-486)
RequestBody(t) ==
  [session_id |-> t.session_id, sheet_name |-> SheetName,
   row |-> t.row, col |-> t.col, value |-> t.value]

\* The timer t is due: its callback runs up to the await of fetch
\* (App.tsx 473-487). updateTimeouts keeps the id of the fired timer.
timerFires(t) ==
  /\ t \in timers
  /\ t.left = 0
  /\ timers' = timers \ {t}
  /\ requests' = requests \cup {[id |-> t.id, key |-> t.key, body |-> RequestBody(t)]}
  /\ sent' = Append(sent, RequestBody(t))
  /\ sendsSince' = [sendsSince EXCEPT ![t.key] = @ + 1]
  /\ UNCHANGED <<pendingUpdates, updateTimeouts, nTimers, sinceCommit>>
  /\ UNCHANGED <<data, nCommits, lastOp, cellCalls, selCalls>>
  /\ UNCHANGED <<gridUiVars, sessionVars, chatVars>>

\* The request req is answered, ok being response.ok, or fetch rejects:
\* the rest of the timer callback (App.tsx 489-501)
updateResponse(req, ok) ==
  /\ req \in requests
  /\ requests' = requests \ {req}
  /\ IF ok
     THEN /\ pendingUpdates' = pendingUpdates \ {req.key}
          /\ UNCHANGED error
     ELSE /\ error' = UpdateError
          /\ UNCHANGED pendingUpdates
  /\ UNCHANGED <<updateTimeouts, timers, nTimers, sent, sinceCommit, sendsSince>>
  /\ UNCHANGED <<session, nSessions, isUploading, messages, elapsed,
                 showTimeoutWarning, timeLeft, dismissed>>
  /\ UNCHANGED <<data, nCommits, lastOp, cellCalls, selCalls>>
  /\ UNCHANGED <<gridUiVars, chatVars>>

\* ------------------------------------------------------------------------
\* Chat (App.tsx 253-259, 305-318, 505-586)

\* handleSendMessage up to the await of the chat fetch (App.tsx 505-528).
\* source is "input" for handleSubmit, which sends only while isLoading is
\* false (App.tsx 255), and "quick" for a quick-action button, which calls
\* onSendMessage directly (App.tsx 310).
handleSendMessage(source) ==
  /\ ~crashed
  /\ session # NULL
  /\ nSends < MaxSends
  /\ (source = "input") => ~isLoading
  /\ messages' = Append(messages, "user")
  /\ isLoading' = TRUE
  /\ chats' = chats \cup {[id |-> nSends + 1, session_id |-> session.session_id,
                           pc |-> "chat"]}
  /\ nSends' = nSends + 1
  /\ lastOp' = "handleSendMessage"
  /\ cellCalls' = << >>
  /\ selCalls' = << >>
  /\ UNCHANGED <<session, nSessions, isUploading, error, elapsed, showTimeoutWarning,
                 timeLeft, dismissed, data, nCommits>>
  /\ UNCHANGED <<gridUiVars, persistVars>>

\* The chat request of the call c is answered and read to its end (App.tsx
\* 530-566, 575-585). outcome is "fail" when fetch rejects or response.ok is
\* false, "modified" when the answer contains 'modifié' or 'écrit', so that
\* the call goes on to fetch the session, and "plain" otherwise.
chatResponse(c, outcome) ==
  /\ c \in chats
  /\ c.pc = "chat"
  /\ messages' = Append(messages, IF outcome = "fail" THEN "system" ELSE "assistant")
  /\ IF outcome = "modified"
     THEN /\ chats' = (chats \ {c}) \cup {[c EXCEPT !.pc = "refresh"]}
          /\ UNCHANGED isLoading
     ELSE /\ chats' = chats \ {c}
          /\ isLoading' = FALSE
  /\ UNCHANGED nSends
  /\ UNCHANGED <<session, nSessions, isUploading, error, elapsed, showTimeoutWarning,
                 timeLeft, dismissed>>
  /\ UNCHANGED <<data, nCommits, lastOp, cellCalls, selCalls>>
  /\ UNCHANGED <<gridUiVars, persistVars>>

\* The session fetch of the call c is answered (App.tsx 569-585). outcome is
\* "ok" when response.ok, the session received holding the sheet g; "notok"
\* when it is not; "reject" when fetch or response.json() rejects.
refreshResponse(c, outcome, g) ==
  /\ c \in chats
  /\ c.pc = "refresh"
  /\ chats' = chats \ {c}
  /\ isLoading' = FALSE
  /\ IF outcome = "ok"
     THEN /\ session' = [session_id |-> c.session_id]
          /\ data' = g
          /\ visibleRange' = MemoVisibleRange(FALSE, scrollPosition, columnWidths, g)
          /\ UNCHANGED messages
     ELSE /\ messages' = IF outcome = "reject" THEN Append(messages, "system") ELSE messages
          /\ UNCHANGED <<session, data, visibleRange>>
  /\ UNCHANGED nSends
  /\ UNCHANGED <<nSessions, isUploading, error, elapsed, showTimeoutWarning,
                 timeLeft, dismissed>>
  /\ UNCHANGED <<nCommits, lastOp, cellCalls, selCalls>>
  /\ UNCHANGED <<columnWidths, selection, isSelecting, editingCell, editValue,
                 scrollPosition, resizingColumn, resizeStartX, resizeStartWidth,
                 clientWidth, clientHeight, mdSaveEdit, crashed, buttonDown, labelVars>>
  /\ UNCHANGED persistVars

\* ------------------------------------------------------------------------
\* Spec: pointer and keyboard events on a small sheet in a container larger
\* than the sheet (no scroll event can occur), and data refreshes.
\* Pointer events are tried on the rendered cells of these rows and columns
PointerRows == {0, 1}
PointerCols == {0, 1}
Keys == {"Enter", "Escape", "Tab"}
SmallGrids == {GridExample, GridJagged, GridTiny}

Init == \E d \in {GridExample, GridTiny} : InitState(d, 860, 625) /\ LabelsIdle

Next ==
  \/ \E row \in PointerRows, col \in PointerCols : handleMouseDown(row, col)
  \/ \E row \in PointerRows, col \in PointerCols : handleMouseMove(row, col)
  \/ handleMouseUp
  \/ \E row \in PointerRows, col \in PointerCols : handleDoubleClick(row, col)
  \/ \E v \in Drafts : handleEditChange(v)
  \/ \E key \in Keys : handleEditKeyDown(key)
  \/ handleEditBlur
  \/ \E g \in SmallGrids : ReplaceGrid(g)

Spec == Init /\ [][Next]_vars

\* ------------------------------------------------------------------------
\* SpecView: scrolling, container layout, column resizing and data refreshes
\* over sheets larger and smaller than the container.
Containers == {[w |-> 0, h |-> 0], [w |-> 260, h |-> 125], [w |-> 860, h |-> 625]}
ScrollXs == {0, 640}
ScrollYs == {0, 10, 150}
PointerXs == {0, 100}
ResizeCols == {0, 1}
ViewGrids == {GridBig, GridExample, GridEmpty}

InitView == \E d \in ViewGrids, c \in Containers : InitState(d, c.w, c.h) /\ LabelsIdle

NextView ==
  \/ \E x \in ScrollXs, y \in ScrollYs : handleScroll(x, y)
  \/ \E c \in Containers : ContainerResize(c.w, c.h)
  \/ \E col \in ResizeCols, clientX \in PointerXs : handleColumnResizeStart(col, clientX)
  \/ \E clientX \in PointerXs : handleColumnResize(clientX)
  \/ handleColumnResizeEnd
  \/ \E clientX \in PointerXs : documentMouseMove(clientX)
  \/ \E g \in ViewGrids : ReplaceGrid(g)

SpecView == InitView /\ [][NextView]_vars

\* ------------------------------------------------------------------------
\* SpecAll: every handler of the component on the large sheet in the small
\* container, with pointer events on two cells.
AllCells == {CellAt(0, 0), CellAt(1, 1)}
AllScrollYs == {0, 150}

InitAll == InitState(GridBig, 260, 125) /\ LabelsIdle

NextAll ==
  \/ \E cell \in AllCells : handleMouseDown(cell.row, cell.col)
  \/ \E cell \in AllCells : handleMouseMove(cell.row, cell.col)
  \/ handleMouseUp
  \/ \E cell \in AllCells : handleDoubleClick(cell.row, cell.col)
  \/ handleEditChange("20")
  \/ \E key \in Keys : handleEditKeyDown(key)
  \/ handleEditBlur
  \/ \E y \in AllScrollYs : handleScroll(0, y)
  \/ \E clientX \in PointerXs : handleColumnResizeStart(0, clientX)
  \/ \E clientX \in PointerXs : handleColumnResize(clientX)
  \/ handleColumnResizeEnd

SpecAll == InitAll /\ [][NextAll]_vars

\* ------------------------------------------------------------------------
\* SpecRender: the renders of a sheet that grows from 1 x 1 to 2 x 2 and
\* back, with a selection dragged and an edit opened on two of its cells.
InitRender == InitState(GridTiny, 860, 625) /\ LabelsIdle

NextRender ==
  \/ \E cell \in AllCells : handleMouseDown(cell.row, cell.col)
  \/ \E cell \in {CellAt(0, 1)} : handleMouseMove(cell.row, cell.col)
  \/ handleMouseUp
  \/ \E cell \in AllCells : handleDoubleClick(cell.row, cell.col)
  \/ handleEditKeyDown("Escape")
  \/ \E g \in {GridTiny, GridExample} : ReplaceGrid(g)

SpecRender == InitRender /\ [][NextRender]_vars

\* ------------------------------------------------------------------------
\* SpecEdit: the edit controller alone, with saveEdit and handleEditKeyDown
\* also called while no session is open. No element of the rendered tree
\* delivers these calls in that state (the editor input is not mounted);
\* they are the functions of the current render applied to an idle state.

\* saveEdit() with editingCell = null (App.tsx 985-991): the setters receive
\* the values the state already holds, so no closure is renewed
saveEditIdle ==
  /\ ~crashed
  /\ UNCHANGED <<labelVars, sessionVars, chatVars>>
  /\ UNCHANGED buttonDown
  /\ editingCell = NULL
  /\ lastOp' = "saveEdit"
  /\ SaveEdit(editingCell, editValue)
  /\ MemoMouseDown(FALSE)
  /\ selCalls' = << >>
  /\ visibleRange' = MemoVisibleRange(FALSE, scrollPosition, columnWidths, data')
  /\ UNCHANGED selVars
  /\ UNCHANGED viewVars

\* handleEditKeyDown(e) with editingCell = null (App.tsx 993-1000)
handleEditKeyDownIdle(key) ==
  /\ ~crashed
  /\ UNCHANGED <<labelVars, sessionVars, chatVars>>
  /\ UNCHANGED buttonDown
  /\ editingCell = NULL
  /\ lastOp' = key
  /\ IF key = "Enter"
     THEN SaveEdit(editingCell, editValue)
     ELSE IF key = "Escape"
     THEN /\ ClearEdit
          /\ cellCalls' = << >>
          /\ UNCHANGED <<persistVars, data, crashed, nCommits>>
     ELSE /\ cellCalls' = << >>
          /\ UNCHANGED <<persistVars, data, crashed, nCommits, editingCell, editValue>>
  /\ MemoMouseDown(FALSE)
  /\ selCalls' = << >>
  /\ visibleRange' = MemoVisibleRange(FALSE, scrollPosition, columnWidths, data')
  /\ UNCHANGED selVars
  /\ UNCHANGED viewVars

InitEdit == \E d \in SmallGrids : InitState(d, 860, 625) /\ LabelsIdle

NextEdit ==
  \/ \E row \in PointerRows, col \in PointerCols : handleDoubleClick(row, col)
  \/ \E v \in Drafts : handleEditChange(v)
  \/ \E key \in Keys : handleEditKeyDown(key)
  \/ handleEditBlur
  \/ saveEditIdle
  \/ \E key \in Keys : handleEditKeyDownIdle(key)
  \/ \E g \in SmallGrids : ReplaceGrid(g)

SpecEdit == InitEdit /\ [][NextEdit]_vars

\* ------------------------------------------------------------------------
\* SpecLabels: one call getCellRef(row, col), the loop of getColumnName
\* followed iteration by iteration.
gridVars == <<data, columnWidths, selection, isSelecting, editingCell, editValue,
              scrollPosition, resizingColumn, resizeStartX, resizeStartWidth,
              clientWidth, clientHeight, visibleRange, mdSaveEdit, crashed,
              nCommits, lastOp, cellCalls, selCalls>>

\* Entry of getCellRef(row, col) and of the getColumnName(col) it calls:
\* name = '', num = index (App.tsx 910-911)
EnterGetCellRef(row, col) ==
  /\ refRow = row
  /\ refCol = col
  /\ num = col
  /\ name = << >>
  /\ cellRef = << >>
  /\ labelPc = "loop"

\* One iteration of the while loop (App.tsx 912-915)
getColumnNameStep ==
  /\ labelPc = "loop"
  /\ num >= 0
  /\ name' = << Letter(num % 26) >> \o name
  /\ num' = NextNum(num)
  /\ UNCHANGED <<refRow, refCol, cellRef, labelPc>>
  /\ UNCHANGED <<gridVars, appVars>>

\* The loop is left, getColumnName returns name and getCellRef returns
\* `${name}${row + 1}` (App.tsx 916, 920)
getCellRefReturn ==
  /\ labelPc = "loop"
  /\ num < 0
  /\ cellRef' = name \o Decimal(refRow + 1)
  /\ labelPc' = "done"
  /\ UNCHANGED <<refRow, refCol, num, name>>
  /\ UNCHANGED <<gridVars, appVars>>

InitLabels ==
  \E row \in 0..MaxRefRow, col \in 0..MaxIndex :
     InitState(GridExample, 860, 625) /\ EnterGetCellRef(row, col)

NextLabels ==
  \/ getColumnNameStep
  \/ getCellRefReturn

SpecLabels == InitLabels /\ [][NextLabels]_vars

\* ------------------------------------------------------------------------
\* SpecPointer: presses, moves and releases of the pointer over the cells
\* of a 2 x 2 sheet, with releases inside and outside the grid container.
InitPointer == \E d \in {GridExample, GridJagged} : InitState(d, 860, 625) /\ LabelsIdle

NextPointer ==
  \/ \E row \in PointerRows, col \in PointerCols : handleMouseDown(row, col)
  \/ \E row \in PointerRows, col \in PointerCols : handleMouseMove(row, col)
  \/ handleMouseUp
  \/ mouseUpOutside

SpecPointer == InitPointer /\ [][NextPointer]_vars

\* ------------------------------------------------------------------------
\* SpecSession: the life of sessions: upload, timer ticks, warning,
\* extension, expiry and closing.
InitSession == InitState(GridExample, 860, 625) /\ LabelsIdle

NextSession ==
  \/ intervalTick
  \/ handleExtendSession
  \/ dismissWarning
  \/ \E confirmed \in BOOLEAN : closeSession(confirmed)
  \/ handleFileUpload
  \/ \E ok \in BOOLEAN : uploadResponse(ok, GridExample)

SpecSession == InitSession /\ [][NextSession]_vars

\* ------------------------------------------------------------------------
\* SpecPersist: cell changes on two cells of the 2 x 2 sheet, the update
\* timers, the update-cell requests and their answers, and the closing of
\* the session.
PersistCells == {CellAt(0, 0), CellAt(0, 1)}
AdvanceSteps == {100, 400}

InitPersist == InitState(GridExample, 860, 625) /\ LabelsIdle

NextPersist ==
  \/ \E cell \in PersistCells, v \in Drafts : handleCellChange(cell.row, cell.col, v)
  \/ \E d \in AdvanceSteps : advanceTime(d)
  \/ \E t \in timers : timerFires(t)
  \/ \E req \in requests, ok \in BOOLEAN : updateResponse(req, ok)
  \/ closeSession(TRUE)

SpecPersist == InitPersist /\ [][NextPersist]_vars

\* ------------------------------------------------------------------------
\* SpecChat: messages sent from the text input and from the quick-action
\* buttons, their answers, the session fetch that follows an answer
\* reporting a modification, and the closing of the session.
Sources == {"input", "quick"}
ChatOutcomes == {"fail", "plain", "modified"}
RefreshOutcomes == {"ok", "notok", "reject"}

InitChat == InitState(GridExample, 860, 625) /\ LabelsIdle

NextChat ==
  \/ \E source \in Sources : handleSendMessage(source)
  \/ \E c \in chats, outcome \in ChatOutcomes : chatResponse(c, outcome)
  \/ \E c \in chats, outcome \in RefreshOutcomes, g \in {GridExample, GridTiny} :
        refreshResponse(c, outcome, g)
  \/ \E confirmed \in BOOLEAN : closeSession(confirmed)

SpecChat == InitChat /\ [][NextChat]_vars

\* ------------------------------------------------------------------------
\* Properties

\* (row, col) is a cell of the grid d
InGrid(d, row, col) ==
  /\ 0 <= row /\ row < TotalRows(d)
  /\ 0 <= col /\ col < TotalCols(d)

\* The range the useMemo body yields for the current state
CurrentRange ==
  ComputeVisibleRange(scrollPosition, clientWidth, clientHeight, columnWidths, data)

\* C1: every render produces descriptors only for cells inside the grid
\* bounds (and inside visibleRange, which holds by construction of the
\* render loop). Violated by the first render: the fallback range is drawn
\* whatever the size of the grid.
C1_DescriptorsInGrid ==
  \A dsc \in Descriptors :
     /\ InGrid(data, dsc.row, dsc.col)
     /\ IsRendered(visibleRange, dsc.row, dsc.col)

\* C2: the computed visible range satisfies startRow <= endRow <= totalRows
\* and startCol <= endCol <= totalCols for every reachable scroll position,
\* container size, width map and grid. Violated when the grid is replaced by
\* a shorter one while scrollPosition keeps its value.
C2_RangeOrdered ==
  LET vr == CurrentRange
  IN /\ vr.startRow <= vr.endRow /\ vr.endRow <= TotalRows(data)
     /\ vr.startCol <= vr.endCol /\ vr.endCol <= TotalCols(data)

\* C7: whenever a selection exists, its start and its end are cells of the
\* current grid. Violated by a press on a cell of the first render that lies
\* outside the grid, and by a data refresh that shrinks the grid.
C7_SelectionInGrid ==
  selection # NULL =>
    /\ InGrid(data, selection.start.row, selection.start.col)
    /\ InGrid(data, selection.end.row, selection.end.col)

\* The record onCellChange receives
CellCall(row, col, value) == [row |-> row, col |-> col, value |-> value]

\* C3: committing an open edit of an in-grid cell (r, c) with Enter invokes
\* the cell-mutation callback exactly once, with (r, c, draft), leaves the
\* draft in the grid at (r, c) for the next render, and ends the session.
C3_CommitRoundTrip ==
  [][(/\ lastOp' = "Enter"
      /\ editingCell # NULL
      /\ InGrid(data, editingCell.row, editingCell.col))
     => (/\ cellCalls' = << CellCall(editingCell.row, editingCell.col, editValue) >>
         /\ CellValue(data', editingCell.row, editingCell.col) = editValue
         /\ editingCell' = NULL
         /\ ~crashed')]_vars

\* C3 witness: "20" typed over the "10" of cell (1, 1) has been committed
C3_Witness ==
  /\ lastOp = "Enter"
  /\ cellCalls = << CellCall(1, 1, "20") >>
  /\ data = << <<"a", "b">>, <<"c", "20">> >>
  /\ editingCell = NULL

\* C4: Escape ends the session, changes no grid cell and invokes no
\* callback; and no event that follows it while the controller is idle (a
\* loss of focus, a press) invokes the callback or writes the grid.
C4_CancelNoOp ==
  [][/\ (lastOp' = "Escape")
          => (editingCell' = NULL /\ editValue' = "" /\ data' = data /\ cellCalls' = << >>)
     /\ (editingCell = NULL)
          => (cellCalls' = << >> /\ (lastOp' # "replaceGrid" => data' = data))]_vars

\* C4 witness: a session on the example grid has been cancelled
C4_Witness ==
  /\ lastOp = "Escape"
  /\ editingCell = NULL
  /\ cellCalls = << >>
  /\ nCommits = 0
  /\ data = GridExample

\* C5 as stated: while an edit session is open on a cell, a press or a move
\* over another cell leaves the selection unchanged and fires no
\* selection-change callback. Violated: handleMouseDown ends the session and
\* selects the pressed cell.
C5_PointerIgnoredWhileEditing ==
  [][\A r \in PointerRows, c \in PointerCols :
       (/\ editingCell # NULL
        /\ InGrid(data, editingCell.row, editingCell.col)
        /\ InGrid(data, r, c)
        /\ CellAt(r, c) # editingCell
        /\ (handleMouseDown(r, c) \/ handleMouseMove(r, c)))
       => (selection' = selection /\ selCalls' = << >>)]_vars

\* C5 amended: while an edit session is open on cell A, a press on another
\* cell B ends the session through saveEdit (one cell-mutation callback, for
\* A) and makes B the single-cell selection, reported once; a move over B
\* leaves the selection alone and reports nothing when no drag is active.
C5_PressEndsEditAndSelects ==
  [][\A r \in PointerRows, c \in PointerCols :
       (editingCell # NULL /\ CellAt(r, c) # editingCell)
       => /\ handleMouseDown(r, c)
               => (/\ selection' = [start |-> CellAt(r, c), end |-> CellAt(r, c)]
                   /\ selCalls' = << selection' >>
                   /\ editingCell' = NULL
                   /\ Len(cellCalls') = 1
                   /\ cellCalls'[1].row = editingCell.row
                   /\ cellCalls'[1].col = editingCell.col)
          /\ (handleMouseMove(r, c) /\ ~isSelecting)
               => (selection' = selection /\ selCalls' = << >> /\ editingCell' = editingCell)]_vars

\* C5 witness: a press on (0, 0) has ended an edit of (1, 1)
C5_Witness ==
  /\ lastOp = "handleMouseDown"
  /\ Len(cellCalls) = 1
  /\ cellCalls[1].row = 1 /\ cellCalls[1].col = 1
  /\ selection = [start |-> CellAt(0, 0), end |-> CellAt(0, 0)]
  /\ editingCell = NULL

\* C6: when handleDoubleClick opens an edit on cell B while a session on
\* another cell A is open with draft d, the callback is invoked with
\* (A.row, A.col, d). Violated: handleDoubleClick overwrites editingCell and
\* editValue without calling saveEdit, and the draft is lost.
C6_DoubleClickCommitsOpenEdit ==
  [][\A r \in PointerRows, c \in PointerCols :
       (/\ editingCell # NULL
        /\ InGrid(data, editingCell.row, editingCell.col)
        /\ InGrid(data, r, c)
        /\ CellAt(r, c) # editingCell
        /\ handleDoubleClick(r, c))
       => cellCalls' = << CellCall(editingCell.row, editingCell.col, editValue) >>]_vars

\* The range the useMemo body yields at vertical offset y, all else as it is
RangeAtY(y) ==
  ComputeVisibleRange([scrollPosition EXCEPT !.y = y], clientWidth, clientHeight,
                      columnWidths, data)

\* C8 as stated: from every scroll position the grid has been scrolled to
\* and can be scrolled on from, CELL_HEIGHT more of scrollY moves startRow
\* and endRow by exactly 1. Violated where a bound is clamped: startRow stays
\* 0 until 5 rows are scrolled out.
C8_UnitShiftEverywhere ==
  (/\ lastOp = "handleScroll"
   /\ CanScrollTo(scrollPosition.x, scrollPosition.y + CELL_HEIGHT))
  => LET a == RangeAtY(scrollPosition.y)
         b == RangeAtY(scrollPosition.y + CELL_HEIGHT)
     IN b.startRow = a.startRow + 1 /\ b.endRow = a.endRow + 1

\* C8 amended: CELL_HEIGHT more of scrollY moves startRow by exactly 1 when
\* floor(y / CELL_HEIGHT) >= VISIBLE_BUFFER and leaves it 0 otherwise; it
\* moves endRow by exactly 1 when ceil((y + containerHeight) / CELL_HEIGHT) +
\* VISIBLE_BUFFER < totalRows and leaves it totalRows otherwise.
C8_UnitShiftUnlessClamped ==
  LET y == scrollPosition.y
      containerHeight == clientHeight - CELL_HEIGHT
      a == RangeAtY(y)
      b == RangeAtY(y + CELL_HEIGHT)
  IN /\ IF Floor(y, CELL_HEIGHT) >= VISIBLE_BUFFER
        THEN b.startRow = a.startRow + 1
        ELSE b.startRow = 0 /\ a.startRow = 0
     /\ IF Ceil(y + containerHeight, CELL_HEIGHT) + VISIBLE_BUFFER < TotalRows(data)
        THEN b.endRow = a.endRow + 1
        ELSE b.endRow = TotalRows(data) /\ a.endRow = TotalRows(data)

\* C8 witness: scrolled to a position where neither bound is clamped, and
\* one more row of scroll moves both by one
C8_Witness ==
  /\ lastOp = "handleScroll"
  /\ scrollPosition.y = 150
  /\ visibleRange = RangeAtY(150)
  /\ visibleRange.startRow = 1
  /\ visibleRange.endRow < TotalRows(data)
  /\ RangeAtY(175).startRow = 2
  /\ RangeAtY(175).endRow = visibleRange.endRow + 1

\* C9: in every render of a grid taller than the container, the number of
\* rows of the visible range is at most ceil(height / CELL_HEIGHT) +
\* 2 * VISIBLE_BUFFER and is not totalRows. Violated by the first render,
\* which draws the 50 rows of the fallback range.
C9_RowsBounded ==
  (clientHeight > 0 /\ clientWidth > 0 /\ TotalHeight(data) > clientHeight) =>
    LET n == visibleRange.endRow - visibleRange.startRow
    IN /\ n <= Ceil(clientHeight, CELL_HEIGHT) + 2 * VISIBLE_BUFFER
       /\ n # TotalRows(data)

\* C10: with a container of zero width or zero height and a non-empty grid,
\* the computed visible range is empty. Violated: the buffer rows and
\* columns are added whatever the size of the container.
C10_ZeroContainerEmpty ==
  (/\ clientWidth = 0 \/ clientHeight = 0
   /\ TotalRows(data) > 0 /\ TotalCols(data) > 0
   /\ visibleRange = CurrentRange)
  => (\/ visibleRange.endRow - visibleRange.startRow <= 0
      \/ visibleRange.endCol - visibleRange.startCol <= 0)

\* C11: for an empty grid every render, the first included, has an empty
\* visible range and produces no cell descriptor, and no error is raised.
\* Violated by the first render, which draws the fallback range.
C11_EmptyGridEmptyRange ==
  TotalRows(data) = 0 =>
    /\ visibleRange.endRow - visibleRange.startRow <= 0
    /\ visibleRange.endCol - visibleRange.startCol <= 0
    /\ Descriptors = {}
    /\ ~crashed

\* C12: after any sequence of resize-start, pointer-move and pointer-up
\* events, every stored column width and every effective width is at least
\* MIN_CELL_WIDTH, and a move that asks for a width below the floor stores
\* exactly MIN_CELL_WIDTH.
C12_WidthsAtLeastMin ==
  /\ [](/\ \A col \in DOMAIN columnWidths : columnWidths[col] >= MIN_CELL_WIDTH
        /\ \A col \in 0..BigCols : ColWidth(columnWidths, col) >= MIN_CELL_WIDTH)
  /\ [][\A clientX \in PointerXs :
          (/\ handleColumnResize(clientX)
           /\ resizeStartWidth + (clientX - resizeStartX) < MIN_CELL_WIDTH)
          => columnWidths'[resizingColumn.col] = MIN_CELL_WIDTH]_vars

\* C12 witness: a resize of column 1 begun at x = 100 with width 100 was
\* dragged to x = 0 (a requested width of 0), and 50 is stored
C12_Witness ==
  /\ lastOp = "handleColumnResize"
  /\ resizingColumn = [col |-> 1]
  /\ resizeStartWidth = DEFAULT_CELL_WIDTH
  /\ resizeStartX = 100
  /\ 1 \in DOMAIN columnWidths
  /\ columnWidths[1] = MIN_CELL_WIDTH

\* The cells membership is probed on: the pointer cells and their neighbours
ProbeRows == {-1, 0, 1, 2}
ProbeCols == {-1, 0, 1, 2}

\* C13: immediately after a press on cell (r, c), whatever the selection
\* was, the selection is the rectangle start = end = (r, c), and
\* isCellSelected is true of (r, c) and of no other cell.
C13_PressSelectsSingleCell ==
  [][\A r \in PointerRows, c \in PointerCols :
       handleMouseDown(r, c)
       => /\ selection' = [start |-> CellAt(r, c), end |-> CellAt(r, c)]
          /\ \A r2 \in ProbeRows, c2 \in ProbeCols :
               IsCellSelected(selection', r2, c2) <=> (r2 = r /\ c2 = c)]_vars

\* C13 witness: a press on (1, 1) has just made it the whole selection
C13_Witness ==
  /\ lastOp = "handleMouseDown"
  /\ selection = [start |-> CellAt(1, 1), end |-> CellAt(1, 1)]
  /\ IsCellSelected(selection, 1, 1)
  /\ ~IsCellSelected(selection, 0, 0)

\* The selection with anchor and focus exchanged
Swapped(sel) == [start |-> sel.end, end |-> sel.start]

\* C14: membership is symmetric in anchor and focus: a press on a followed
\* by a drag to b selects the same cells as a press on b followed by a drag
\* to a, namely the cells (r, c) with min(a.row, b.row) <= r <= max(a.row,
\* b.row) and min(a.col, b.col) <= c <= max(a.col, b.col).
C14_MembershipSymmetric ==
  selection # NULL =>
    \A r \in ProbeRows, c \in ProbeCols :
      /\ IsCellSelected(selection, r, c) <=> IsCellSelected(Swapped(selection), r, c)
      /\ IsCellSelected(selection, r, c) <=>
           /\ Min(selection.start.row, selection.end.row) <= r
           /\ r <= Max(selection.start.row, selection.end.row)
           /\ Min(selection.start.col, selection.end.col) <= c
           /\ c <= Max(selection.start.col, selection.end.col)

\* C14 witness: a press on (1, 1) dragged up and left to (0, 0) selects the
\* four cells, (0, 1) among them
C14_Witness ==
  /\ lastOp = "handleMouseMove"
  /\ selection = [start |-> CellAt(1, 1), end |-> CellAt(0, 0)]
  /\ IsCellSelected(selection, 0, 1)
  /\ IsCellSelected(selection, 1, 0)

\* C15: a pointer move over a cell while no drag is active, before any press
\* or after a release, leaves the selection unchanged and fires no
\* selection-change callback; during a drag it sets end to the cell and
\* leaves start, the anchor, as it is.
C15_MoveExtendsOnlyWhileDragging ==
  [][\A r \in PointerRows, c \in PointerCols :
       handleMouseMove(r, c)
       => IF isSelecting
          THEN /\ selection # NULL
               /\ selection'.start = selection.start
               /\ selection'.end = CellAt(r, c)
          ELSE selection' = selection /\ selCalls' = << >>]_vars

\* C15 witness: after a drag from (0, 0) to (0, 1) was released, a move has
\* changed nothing
C15_Witness ==
  /\ lastOp = "handleMouseMove"
  /\ ~isSelecting
  /\ selection = [start |-> CellAt(0, 0), end |-> CellAt(0, 1)]
  /\ selCalls = << >>

\* C16: a pointer release leaves start and end of the selection unchanged
\* and fires no selection-change callback; it only ends the drag.
C16_ReleaseFreezes ==
  [][handleMouseUp
     => /\ selection' = selection
        /\ selCalls' = << >>
        /\ isSelecting' = FALSE
        /\ editingCell' = editingCell /\ data' = data]_vars

\* C16 witness: the drag from (0, 0) to (1, 1) has been released
C16_Witness ==
  /\ lastOp = "handleMouseUp"
  /\ ~isSelecting
  /\ selection = [start |-> CellAt(0, 0), end |-> CellAt(1, 1)]

\* C17: every handler that changes the selection rectangle, and every press
\* and every move of a drag, invokes the selection-change callback exactly
\* once, with the selection it stores.
C17_ChangeReportedOnce ==
  [][/\ selection' # selection => selCalls' = << selection' >>
     /\ \A r \in PointerRows, c \in PointerCols :
          (handleMouseDown(r, c) \/ (handleMouseMove(r, c) /\ isSelecting))
          => selCalls' = << selection' >>]_vars

\* C17 witness: a move of a drag has reported the rectangle (1, 0)-(0, 1)
C17_Witness ==
  /\ lastOp = "handleMouseMove"
  /\ selection = [start |-> CellAt(1, 0), end |-> CellAt(0, 1)]
  /\ selCalls = << selection >>

\* The labels of the reference spreadsheet numbering: the strings over A..Z
\* in order of length, then alphabetically. Offset(len) labels are shorter
\* than len letters.
RECURSIVE Pow26(_)
Pow26(k) == IF k = 0 THEN 1 ELSE 26 * Pow26(k - 1)

RECURSIVE Offset(_)
Offset(len) == IF len <= 1 THEN 0 ELSE Offset(len - 1) + Pow26(len - 1)

RefLen(n) == CHOOSE len \in 1..4 : Offset(len) <= n /\ n < Offset(len + 1)

RefName(n) ==
  LET len == RefLen(n)
      m == n - Offset(len)
  IN [i \in 1..len |-> Letter((m \div Pow26(len - i)) % 26)]

\* C18: getColumnName returns the label of the reference spreadsheet
\* numbering for every index of the range, 0 -> A, 25 -> Z, 26 -> AA,
\* 701 -> ZZ and 702 -> AAA among them, and its loop terminates: every
\* iteration makes num smaller and never takes it below -1.
C18_ColumnNameIsSpreadsheetLabel ==
  /\ [](labelPc = "done" =>
          /\ name = RefName(refCol)
          /\ name = GetColumnName(refCol)
          /\ refCol = 0 => name = << "A" >>
          /\ refCol = 25 => name = << "Z" >>
          /\ refCol = 26 => name = << "A", "A" >>
          /\ refCol = 701 => name = << "Z", "Z" >>
          /\ refCol = 702 => name = << "A", "A", "A" >>)
  /\ [][getColumnNameStep => (num' < num /\ num' >= -1)]_vars

\* C18 witness: getColumnName(702) has returned AAA
C18_Witness ==
  /\ labelPc = "done"
  /\ refCol = 702
  /\ name = << "A", "A", "A" >>

\* The value of the digit character ch
DigitValue(ch) == CHOOSE k \in 0..9 : DigitChars[k + 1] = ch

\* The number a sequence of digit characters denotes
RECURSIVE ParseDecimal(_)
ParseDecimal(digits) ==
  IF digits = << >> THEN 0
  ELSE 10 * ParseDecimal(SubSeq(digits, 1, Len(digits) - 1))
       + DigitValue(digits[Len(digits)])

\* C19: getCellRef is injective on the range: the reference returned for
\* (row, col) is returned for no other cell; it is the column name followed
\* by the decimal digits of row + 1.
C19_CellRefInjective ==
  labelPc = "done" =>
    /\ cellRef = GetCellRef(refRow, refCol)
    /\ SubSeq(cellRef, 1, Len(name)) = name
    /\ \A i \in (Len(name) + 1)..Len(cellRef) : \E k \in 0..9 : DigitChars[k + 1] = cellRef[i]
    /\ ParseDecimal(SubSeq(cellRef, Len(name) + 1, Len(cellRef))) = refRow + 1
    /\ refCol <= MaxRefCol =>
         \A r2 \in 0..MaxRefRow, c2 \in 0..MaxRefCol :
            <<r2, c2>> # <<refRow, refCol>> => GetCellRef(r2, c2) # cellRef

\* C19 witness: getCellRef(10, 26) has returned AA11
C19_Witness ==
  /\ labelPc = "done"
  /\ refRow = 10
  /\ refCol = 26
  /\ cellRef = << "A", "A", "1", "1" >>

\* C20: in no reachable state is an edit session open while a selection
\* drag is active, whatever the order of press, move, release and
\* double-click events. Violated: handleDoubleClick opens the session
\* without looking at isSelecting, so a double-click that reaches the grid
\* after a press and before its release leaves both set.
C20_EditExcludesDrag == ~(editingCell # NULL /\ isSelecting)

\* C21: saveEdit (the commit of Enter and of blur) and the Escape branch,
\* run while no edit session is open, change no grid cell, invoke no
\* cell-mutation callback, leave the controller idle and raise no error.
C21_IdleCommitCancelNoOp ==
  [][(saveEditIdle \/ handleEditKeyDownIdle("Enter") \/ handleEditKeyDownIdle("Escape"))
     => (/\ data' = data
         /\ cellCalls' = << >>
         /\ editingCell' = NULL
         /\ editValue' = editValue
         /\ nCommits' = nCommits
         /\ ~crashed')]_vars

\* C21 witness: Enter was handled with no session open on the example grid
\* (a commit of an open session would have counted in nCommits), and
\* nothing was committed
C21_Witness ==
  /\ lastOp = "Enter"
  /\ editingCell = NULL
  /\ cellCalls = << >>
  /\ nCommits = 0
  /\ data = GridExample
  /\ ~crashed

\* C22: single writer per field. Among the handlers of the component, only
\* handleColumnResize changes columnWidths, only a handler that invokes the
\* cell-mutation callback (saveEdit) changes the grid, and only handleScroll
\* changes scrollPosition. (A data refresh is the caller supplying a new
\* grid, not a write of the component.)
C22_SingleWriter ==
  [][/\ columnWidths' # columnWidths => lastOp' = "handleColumnResize"
     /\ scrollPosition' # scrollPosition => lastOp' = "handleScroll"
     /\ data' # data =>
          \/ lastOp' = "replaceGrid"
          \/ /\ editingCell # NULL
             /\ Len(cellCalls') = 1
             /\ lastOp' \in {"Enter", "blur", "handleMouseDown"}]_vars

\* C22 witness: in one behaviour the sheet was scrolled, an edit was
\* committed and a column was resized, each by its own writer
C22_Witness ==
  /\ lastOp = "handleColumnResize"
  /\ 0 \in DOMAIN columnWidths
  /\ columnWidths[0] = 50
  /\ scrollPosition.y = 150
  /\ nCommits = 1
  /\ data # GridBig

\* C23: every commit of an open edit session on an in-grid cell, by Enter,
\* by blur or by a press on a cell, passes the draft as last typed to the
\* cell-mutation callback. Violated by the press: the memoized
\* handleMouseDown calls the saveEdit of the render in which editingCell
\* last changed, which holds the value the edit began with.
C23_CommitPassesLatestDraft ==
  [][(/\ editingCell # NULL
      /\ InGrid(data, editingCell.row, editingCell.col)
      /\ cellCalls' # << >>)
     => cellCalls' = << CellCall(editingCell.row, editingCell.col, editValue) >>]_vars

\* The range the useMemo body yields at horizontal offset x, all else as it is
RangeAtX(x) ==
  ComputeVisibleRange([scrollPosition EXCEPT !.x = x], clientWidth, clientHeight,
                      columnWidths, data)

\* The horizontal offsets the column range is examined at
ProbeXs == {0, 99, 100, 640, 1100}

\* The least element of a non-empty set of integers
Least(S) == CHOOSE m \in S : \A n \in S : m <= n

\* C24: for every scrollX, container width and width map, startCol is
\* max(0, k - VISIBLE_BUFFER) for the first column k whose cumulative width,
\* column k included, exceeds scrollX; endCol is the first column whose left
\* offset exceeds scrollX + containerWidth + VISIBLE_BUFFER *
\* DEFAULT_CELL_WIDTH, and totalCols when no column's does.
C24_ColumnRangeIsScan ==
  \A x \in ProbeXs \cup {scrollPosition.x} :
    LET vr == RangeAtX(x)
        cols == 0..(TotalCols(data) - 1)
        threshold == x + (clientWidth - ROW_HEADER_WIDTH) + VISIBLE_BUFFER * DEFAULT_CELL_WIDTH
        K == {k \in cols : GetColumnLeft(columnWidths, k + 1) > x}
        E == {c \in cols : GetColumnLeft(columnWidths, c) > threshold}
    IN /\ K # {} => vr.startCol = Max(0, Least(K) - VISIBLE_BUFFER)
       /\ E # {} => vr.endCol = Least(E)
       /\ E = {} => vr.endCol = TotalCols(data)

\* C24 witness: the 16 columns of 100 px scrolled to x = 640 in the 260 px
\* container: column 6 is the first one in view, column 14 the first one
\* past the threshold 1340
C24_Witness ==
  /\ lastOp = "handleScroll"
  /\ scrollPosition.x = 640
  /\ clientWidth = 260
  /\ columnWidths = << >>
  /\ visibleRange = CurrentRange
  /\ visibleRange.startCol = 1
  /\ visibleRange.endCol = 14

\* C25: after the container's width or height alone has changed, the range
\* used by the next render is the one computed from the new dimensions.
\* Violated: the container's size is not a dependency of the useMemo and no
\* handler listens to resizes, so the range computed for the old size stays
\* in use.
C25_RangeTracksContainer ==
  [][(lastOp' = "containerResize" /\ visibleRange = CurrentRange)
     => visibleRange' = CurrentRange']_vars

\* The pixel rectangle of cell (row, col) meets the window
\* [scrollX, scrollX + containerWidth) x [scrollY, scrollY + containerHeight)
InWindow(row, col) ==
  LET left == GetColumnLeft(columnWidths, col)
      top == row * CELL_HEIGHT
      containerWidth == clientWidth - ROW_HEADER_WIDTH
      containerHeight == clientHeight - CELL_HEIGHT
  IN /\ left < scrollPosition.x + containerWidth
     /\ left + ColWidth(columnWidths, col) > scrollPosition.x
     /\ top < scrollPosition.y + containerHeight
     /\ top + CELL_HEIGHT > scrollPosition.y

\* C26: in every render, every in-grid cell whose pixel rectangle meets the
\* viewport window lies inside the visible range and so gets a descriptor.
\* Violated after the container has grown: the renders that follow (the
\* state after a handler, the layout change itself renders nothing) keep
\* the range of the smaller container (C25) and the cells that came into
\* view are not drawn.
C26_VisibleCellsRendered ==
  lastOp # "containerResize" =>
    \A row \in 0..(TotalRows(data) - 1), col \in 0..(TotalCols(data) - 1) :
       InWindow(row, col) => IsRendered(visibleRange, row, col)

\* C27: a resize session on column c captures the pointer's x and the
\* column's width at its start; each pointer move at x sets the width of c
\* to max(MIN_CELL_WIDTH, startWidth + (x - startX)), not accumulated over
\* the moves, so a move back to startX restores startWidth; the width of
\* every other column is unchanged.
C27_ResizeFromStartWidth ==
  [][/\ \A col \in ResizeCols, clientX \in PointerXs :
          handleColumnResizeStart(col, clientX)
          => /\ resizeStartX' = clientX
             /\ resizeStartWidth' = ColWidth(columnWidths, col)
             /\ columnWidths' = columnWidths
     /\ \A clientX \in PointerXs :
          handleColumnResize(clientX)
          => LET c == resizingColumn.col
             IN /\ ColWidth(columnWidths', c) =
                     Max(MIN_CELL_WIDTH, resizeStartWidth + (clientX - resizeStartX))
                /\ clientX = resizeStartX => ColWidth(columnWidths', c) = resizeStartWidth
                /\ \A c2 \in 0..BigCols :
                     c2 # c => ColWidth(columnWidths', c2) = ColWidth(columnWidths, c2)
                /\ resizeStartX' = resizeStartX
                /\ resizeStartWidth' = resizeStartWidth]_vars

\* C27 witness: column 0, narrowed to 50 by an earlier session, was taken
\* at x = 0 and dragged to x = 100: it is 150 wide and column 1 keeps the
\* 50 it was given
C27_Witness ==
  /\ lastOp = "handleColumnResize"
  /\ resizingColumn = [col |-> 0]
  /\ resizeStartX = 0
  /\ resizeStartWidth = 50
  /\ DOMAIN columnWidths = {0, 1}
  /\ columnWidths[0] = 150
  /\ columnWidths[1] = 50

\* C28: a release during a resize session ends the session and leaves
\* every column at the width the last move gave it; while no session is
\* open, pointer moves, and every other event, change no column width.
C28_ReleaseCommits ==
  [][/\ handleColumnResizeEnd => (resizingColumn' = NULL /\ columnWidths' = columnWidths)
     /\ resizingColumn = NULL => columnWidths' = columnWidths]_vars

\* C28 witness: column 0 was dragged to 50, the button was released, and a
\* pointer move after the release has left the 50 in place
C28_Witness ==
  /\ lastOp = "mousemove"
  /\ resizingColumn = NULL
  /\ DOMAIN columnWidths = {0}
  /\ columnWidths[0] = 50

\* The sum of the effective widths of the columns of the set S
RECURSIVE SumWidths(_, _)
SumWidths(cw, S) ==
  IF S = {} THEN 0
  ELSE LET c == CHOOSE c \in S : TRUE
       IN ColWidth(cw, c) + SumWidths(cw, S \ {c})

\* C29: the column layout is a gapless prefix sum, after every width
\* change: getColumnLeft(c) is the sum of the widths of the columns before
\* c, getColumnLeft(c + 1) = getColumnLeft(c) + width(c), totalWidth =
\* getColumnLeft(totalCols); and every descriptor has left =
\* getColumnLeft(col), top = row * CELL_HEIGHT, width = width(col) and
\* height = CELL_HEIGHT.
C29_LayoutIsPrefixSum ==
  /\ \A c \in 0..TotalCols(data) :
       /\ GetColumnLeft(columnWidths, c) = SumWidths(columnWidths, 0..(c - 1))
       /\ GetColumnLeft(columnWidths, c + 1) =
            GetColumnLeft(columnWidths, c) + ColWidth(columnWidths, c)
  /\ TotalWidth(data, columnWidths) = GetColumnLeft(columnWidths, TotalCols(data))
  /\ \A dsc \in Descriptors :
       /\ dsc.left = SumWidths(columnWidths, 0..(dsc.col - 1))
       /\ dsc.top = dsc.row * CELL_HEIGHT
       /\ dsc.width = ColWidth(columnWidths, dsc.col)
       /\ dsc.height = CELL_HEIGHT

\* C29 witness: column 0 of the 16-column sheet has been narrowed to 50:
\* column 1 is drawn at 50, column 2 starts at 150 and the sheet is 1550 wide
C29_Witness ==
  /\ lastOp = "handleColumnResize"
  /\ DOMAIN columnWidths = {0}
  /\ columnWidths[0] = 50
  /\ GetColumnLeft(columnWidths, 2) = 150
  /\ TotalWidth(data, columnWidths) = 1550
  /\ \E dsc \in Descriptors : dsc.col = 1 /\ dsc.left = 50

\* C30: each render produces exactly one descriptor for every (row, col)
\* with startRow <= row < endRow and startCol <= col < endCol, in row-major
\* order; a descriptor's isSelected is isCellSelected(row, col), its
\* isEditing is true exactly when (row, col) is the cell of the open edit
\* session, and at most one descriptor of a render is in editing state.
C30_OneDescriptorPerCell ==
  LET out == RenderLoop(visibleRange)
      n == Len(out)
  IN /\ {CellAt(out[i].row, out[i].col) : i \in 1..n} = RenderedCells(visibleRange)
     /\ n = Cardinality(RenderedCells(visibleRange))
     /\ \A i \in 1..(n - 1) :
          \/ out[i].row < out[i + 1].row
          \/ out[i].row = out[i + 1].row /\ out[i].col < out[i + 1].col
     /\ \A i \in 1..n :
          /\ out[i].isSelected = IsCellSelected(selection, out[i].row, out[i].col)
          /\ out[i].isEditing = (editingCell = CellAt(out[i].row, out[i].col))
     /\ Cardinality({i \in 1..n : out[i].isEditing}) <= 1

\* C30 witness: the 2 x 2 sheet drawn in its computed range, cell (1, 1)
\* open in the editor and the selection on (0, 0)-(0, 1): four descriptors,
\* in the order (0,0), (0,1), (1,0), (1,1)
C30_Witness ==
  /\ visibleRange = [startRow |-> 0, endRow |-> 2, startCol |-> 0, endCol |-> 2]
  /\ editingCell = CellAt(1, 1)
  /\ selection = [start |-> CellAt(0, 0), end |-> CellAt(0, 1)]
  /\ Len(RenderLoop(visibleRange)) = 4
  /\ RenderLoop(visibleRange)[2].col = 1 /\ RenderLoop(visibleRange)[2].isSelected
  /\ RenderLoop(visibleRange)[3].row = 1 /\ ~RenderLoop(visibleRange)[3].isSelected
  /\ RenderLoop(visibleRange)[4].isEditing

\* C31: once the pointer button has been released, inside the grid or
\* outside its container, no drag is active, and a pointer move over a cell
\* with no button pressed leaves the selection as it is.
C31_DragAlwaysReleased ==
  /\ [](~buttonDown => ~isSelecting)
  /\ [][\A r \in PointerRows, c \in PointerCols :
          (handleMouseMove(r, c) /\ ~buttonDown) => selection' = selection]_vars

\* C32: the selection-change callback is invoked only when the rectangle
\* actually changes; a move of a drag onto the cell that is already the end
\* of the selection does not invoke it.
C32_DuplicatesSuppressed ==
  [][selCalls' # << >> => selection' # selection]_vars

\* C32 as amended: the callback is invoked by presses and by moves of a drag
\* only, and a move of a drag onto the cell that is already the end of the
\* selection stores the same rectangle and reports it once more.
C32_DuplicatesReported ==
  [][/\ selCalls' # << >> => lastOp' \in {"handleMouseDown", "handleMouseMove"}
     /\ \A r \in PointerRows, c \in PointerCols :
          (handleMouseMove(r, c) /\ isSelecting /\ selection # NULL)
          => (selection.end = CellAt(r, c)
              => selection' = selection /\ selCalls' = << selection >>)]_vars

\* C32 witness: during the drag begun on (1, 1) a move inside (1, 1) has
\* reported the single-cell rectangle
C32_Witness ==
  /\ lastOp = "handleMouseMove"
  /\ isSelecting
  /\ selection = [start |-> CellAt(1, 1), end |-> CellAt(1, 1)]
  /\ selCalls = << selection >>

\* C33: a session expires 3600 seconds after it started or was last
\* extended: the first tick at which the elapsed time reaches 3600 clears
\* the session and the messages, hides the warning and sets the expiry
\* error; the warning first appears 300 seconds before, at 3300.
C33_ExpiresAfterOneHour ==
  [][intervalTick
     => LET e == NextInstant(elapsed.seconds)
        IN /\ e >= 3600
              => /\ session' = NULL
                 /\ messages' = << >>
                 /\ ~showTimeoutWarning'
                 /\ error' = ExpiredError
           /\ e < 3600
              => /\ session' = session
                 /\ (showTimeoutWarning' /\ ~showTimeoutWarning) => e >= 3300
                 /\ (e >= 3300 /\ ~dismissed) => showTimeoutWarning']_vars

\* C38: once the warning has been dismissed, no timer tick shows it again
\* before the session is extended, closed or expired.
C38_DismissedStaysHidden == dismissed => ~showTimeoutWarning

\* The armed timers and the requests in flight of a cell key
TimersOf(key) == {t \in timers : t.key = key}
RequestsOf(key) == {r \in requests : r.key = key}

\* C34: the persistence of a cell is debounced per cell. At most one timer
\* is armed per cell key; no request is sent for a cell less than 500 ms
\* after its last commit, exactly one has been sent once more than 500 ms
\* have passed, whatever was committed to other cells meanwhile; the request
\* is sent 500 ms after the last commit and carries its value.
C34_DebouncedPerCell ==
  /\ [](\A key \in DOMAIN sinceCommit :
          /\ Cardinality(TimersOf(key)) <= 1
          /\ sendsSince[key] <= 1
          /\ sinceCommit[key] < DEBOUNCE_MS => sendsSince[key] = 0
          /\ sinceCommit[key] > DEBOUNCE_MS => sendsSince[key] = 1)
  /\ [][\A t \in timers :
          timerFires(t)
          => /\ sinceCommit[t.key] = DEBOUNCE_MS
             /\ t.value = CellValue(data, t.row, t.col)
             /\ sent' = Append(sent, [session_id |-> t.session_id, sheet_name |-> SheetName,
                                      row |-> t.row, col |-> t.col,
                                      value |-> CellValue(data, t.row, t.col)])]_vars

\* C34 witness: two commits to (0, 0), the second less than 500 ms after
\* the first, then a commit to (0, 1): one request was sent for (0, 0),
\* with the value of its second commit, and none yet for (0, 1)
C34_Witness ==
  /\ nCommits = 3
  /\ nTimers = 3
  /\ data[1] = << "20", "" >>
  /\ Len(sent) = 1
  /\ sent[1].row = 0 /\ sent[1].col = 0 /\ sent[1].value = "20"
  /\ TimersOf(CellKey(0, 0)) = {}
  /\ \E t \in TimersOf(CellKey(0, 1)) : t.id = 3

\* C35: a cell key is in pendingUpdates whenever an update for the cell is
\* scheduled (a timer is armed for it) or in flight (a request for it has
\* been sent and not answered).
C35_PendingUpdatesAccurate ==
  \A key \in DOMAIN updateTimeouts :
     (TimersOf(key) # {} \/ RequestsOf(key) # {}) => key \in pendingUpdates

\* C36: no update-cell request is sent for a session that has been closed
\* or has expired: a timer that fires sends its request for the session
\* that is open.
C36_NoRequestAfterClose ==
  [][\A t \in timers :
       timerFires(t) => (session # NULL /\ session.session_id = t.session_id)]_vars

\* The calls of handleSendMessage whose chat request is in flight
ChatRequests == {c \in chats : c.pc = "chat"}

\* C37: isLoading is true in every state in which a chat request is in
\* flight, whether it was sent from the text input or from a quick-action
\* button, and it becomes false only when no chat request remains in flight.
C37_LoadingWhileInFlight ==
  /\ [](ChatRequests # {} => isLoading)
  /\ [][(isLoading /\ ~isLoading') => ChatRequests' = {}]_vars

====
